---- MODULE Spec2Model ----
(***************************************************************************)
(* A model of the data-sync core of nba-games-with-friends                 *)
(* (src/services/data-sync): the task-queue worker, the resilient NBA API  *)
(* fetcher, the entity transformers, the per-game sync operations and the  *)
(* checkpointed backfill driver.                                           *)
(*                                                                         *)
(* Each subsystem has its own specification over the shared variables:     *)
(*   Spec         the task-queue worker (worker.py)                        *)
(*   SpecSolo     one worker with failing store calls and output           *)
(*   SpecFetch    safe_call_nba_api (utils.py)                             *)
(*   SpecTransform the entity transformers (services/*.py)                 *)
(*   SpecSync     the sync operations on the store (services/*.py)         *)
(*   SpecSyncFaults the sync operations on a store that refuses writes     *)
(*   SpecBackfill the checkpointed backfill (check-data/backfill_data.py)  *)
(***************************************************************************)
EXTENDS Integers, Sequences, FiniteSets, TLC

VARIABLES
    task_queue,     \* worker.py: the task_queue table, one row per task id
    worker,         \* worker.py: each worker process's position and locals
    invoked,        \* per task id, the workers that ran a handler for it
    nCreated,       \* number of rows the external producer has inserted
    sc,             \* utils.py: the locals of one safe_call_nba_api call
    nba_http,       \* nba_api.library.http: PROXY and the two _session attributes
    tf,             \* the last transformer call: its inputs and what it returned
    db,             \* the store: teams, players, games and the two stats tables
    so,             \* the last sync operation: its inputs and how it ended
    nsync,          \* number of sync operations run so far
    bf,             \* backfill_data.py: the process, its BackfillProgress, its lists
    ckpt,           \* backfill_data.py: the checkpoint file
    bflog,          \* the sync calls the current backfill run has made
    nruns           \* number of times the backfill has been started

workerVars == <<task_queue, worker, invoked, nCreated>>
fetchVars == <<sc, nba_http>>
transformVars == <<tf>>
syncVars == <<db, so, nsync>>
backfillVars == <<bf, ckpt, bflog, nruns>>

vars == <<workerVars, fetchVars, transformVars, syncVars, backfillVars>>

notWorker == <<fetchVars, transformVars, syncVars, backfillVars>>
notFetch == <<workerVars, transformVars, syncVars, backfillVars>>
notTransform == <<workerVars, fetchVars, syncVars, backfillVars>>
notSync == <<workerVars, fetchVars, transformVars, backfillVars>>
notBackfill == <<workerVars, fetchVars, transformVars, so, nsync>>

(***************************************************************************)
(* Bounds of the model.                                                    *)
(***************************************************************************)
NumWorkers == 2
MaxTasks == 2

Workers == 1..NumWorkers
TaskIds == 1..MaxTasks

(***************************************************************************)
(* worker.py: the task queue.                                              *)
(***************************************************************************)

\* worker.py:525-535, the keys of the handler registry.
TASK_HANDLERS ==
    { "SYNC_LIVE_GAME", "SYNC_DATE_GAMES", "DAILY_WRAP_UP", "SYNC_PLAYER_STATS",
      "SYNC_ADVANCED_STATS", "DATA_AUDIT", "BACKFILL_DATA", "FIRST_GAME_NOTIFIED",
      "CHECK_SCHEDULE" }

\* The type tags the external producer writes in the model: two registered
\* ones and one that is no key of TASK_HANDLERS.
ProducedTypes == { "SYNC_LIVE_GAME", "FIRST_GAME_NOTIFIED", "NOT_A_TASK_TYPE" }

\* The type tags of the single-worker specification: handlers that read
\* their payload, one that ignores it, and an unregistered tag.
SoloTypes ==
    { "SYNC_LIVE_GAME", "SYNC_DATE_GAMES", "BACKFILL_DATA", "CHECK_SCHEDULE",
      "NOT_A_TASK_TYPE" }

\* The payload column of a row, by shape: "ok" is an object with the fields
\* of its task type, "no_fields" an object without them, "not_json" a string
\* json.loads rejects, "not_object" valid JSON that is no object (a list).
Payloads == { "ok", "no_fields", "not_json", "not_object" }

\* worker.py:599-604: a string payload json.loads rejects becomes {}.
ParsePayload(payload) == IF payload = "not_json" THEN "no_fields" ELSE payload

\* worker.py:584: error[:1000].
ErrorLimit == 1000

\* The exception messages of the model and their lengths in characters.
AttributeErrorText == "'list' object has no attribute 'get'"
StoreErrorText == "APIError with a 1500-character response body"
StoreErrorTextCut == "APIError with a 1500-character response body, first 1000 characters"
TextLen(text) == IF text = StoreErrorText THEN 1500 ELSE IF text = AttributeErrorText THEN 36 ELSE 29

\* worker.py:584: the slice error[:1000] of an error text.
Truncate(text) == IF TextLen(text) > ErrorLimit THEN StoreErrorTextCut ELSE text

HandlerRun(outcome, exc, sync_called) ==
    [outcome |-> outcome, exc |-> exc, sync_called |-> sync_called]

\* payload.get(...) on a payload that is no dict (worker.py:80, 118, 357, 519).
RaisesOnGet == { HandlerRun("raise", AttributeErrorText, FALSE) }

\* What a handler call can do with the parsed payload: return True, return
\* False or raise, after calling a sync operation or without calling one.
HandlerRuns(task_type, payload) ==
    CASE task_type = "SYNC_LIVE_GAME" ->
            \* worker.py:70-106
            IF payload = "not_object" THEN RaisesOnGet
            ELSE IF payload = "no_fields" THEN { HandlerRun("true", "", FALSE) }
            ELSE { HandlerRun("true", "", TRUE), HandlerRun("false", "", TRUE) }
      [] task_type = "SYNC_DATE_GAMES" ->
            \* worker.py:109-137: without a date the handler takes today's.
            IF payload = "not_object" THEN RaisesOnGet
            ELSE { HandlerRun("true", "", TRUE), HandlerRun("false", "", TRUE) }
      [] task_type = "BACKFILL_DATA" ->
            \* worker.py:347-391
            IF payload = "not_object" THEN RaisesOnGet
            ELSE IF payload = "no_fields" THEN { HandlerRun("false", "", FALSE) }
            ELSE { HandlerRun("true", "", TRUE) }
      [] task_type = "CHECK_SCHEDULE" ->
            \* worker.py:395-507: the payload is not read; the select of
            \* today's games (419-423) is outside every try.
            { HandlerRun("true", "", FALSE), HandlerRun("true", "", TRUE),
              HandlerRun("raise", StoreErrorText, FALSE) }
      [] task_type = "FIRST_GAME_NOTIFIED" ->
            \* worker.py:510-521
            IF payload = "not_object" THEN RaisesOnGet
            ELSE { HandlerRun("true", "", FALSE) }
      [] OTHER -> { HandlerRun("true", "", TRUE), HandlerRun("false", "", TRUE) }

\* The element of a one-element set.  { e(x) : x \in {v} } computes v once
\* and names the result x.
Value(S) == CHOOSE x \in S : TRUE

Min(a, b) == IF a <= b THEN a ELSE b

RECURSIVE Pow2(_)
Pow2(n) == IF n <= 0 THEN 1 ELSE 2 * Pow2(n - 1)

NoRow == [status |-> "NONE", task_type |-> "", payload |-> "", created_at |-> 0,
          error_log |-> ""]

\* worker.py:652-653.
max_consecutive_errors == 5

\* worker.py:792-794: --poll-interval, default WORKER_POLL_INTERVAL or 10.
PollIntervals == {10, 60}

\* worker.py:681: time.sleep(2) after a task.
TaskPause == 2

\* worker.py:700: the cap of the sleep after an error.
SleepCap == 300

\* A worker at the top of its loop.  raised_run is the number of iterations
\* in a row, up to now, that ended in run_worker's except clause; sleep_time
\* is the argument of the last time.sleep.
IdleWorker == [pc |-> "poll", task |-> 0, task_type |-> "", success |-> FALSE,
               rows_updated |-> 0, exc |-> "", sync_called |-> FALSE,
               consecutive_errors |-> 0, failed_polls |-> 0,
               poll_interval |-> 10, sleep_time |-> 0, raised_run |-> 0]

\* worker.py:677-685: an iteration that did not raise ends: the counter is
\* reset, the worker sleeps sleep_time seconds and polls again.
NextPoll(wk, sleep_time) ==
    [IdleWorker EXCEPT !.poll_interval = wk.poll_interval,
                       !.sleep_time = sleep_time]

\* worker.py:700: min(poll_interval * (2 ** consecutive_errors), 300).
ErrorSleep(poll_interval, consecutive_errors) == Min(poll_interval * Pow2(consecutive_errors), SleepCap)

InitWorker ==
    /\ task_queue = [t \in TaskIds |-> NoRow]
    /\ worker = [w \in Workers |-> IdleWorker]
    /\ invoked = [t \in TaskIds |-> {}]
    /\ nCreated = 0

\* The external producer (n8n workflow) inserts a PENDING row.
Insert(t, ty, payload) ==
    /\ task_queue[t].status = "NONE"
    /\ nCreated' = nCreated + 1
    /\ task_queue' = [task_queue EXCEPT ![t] =
            [status |-> "PENDING", task_type |-> ty, payload |-> payload,
             created_at |-> nCreated + 1, error_log |-> ""]]
    /\ UNCHANGED <<worker, invoked>>
    /\ UNCHANGED notWorker

\* A row with a well-formed payload.
Produce(t, ty) == Insert(t, ty, "ok")

PendingIds == { t \in TaskIds : task_queue[t].status = "PENDING" }

\* worker.py:545-550: select * where status = PENDING order by created_at limit 1.
OldestPendingM == CHOOSE t \in PendingIds : \A u \in PendingIds : t >= u
OldestPending ==
    CHOOSE t \in PendingIds :
        \A u \in PendingIds : task_queue[t].created_at <= task_queue[u].created_at

\* worker.py:558-566: update ... where id = task id and status = PENDING.
\* The number of rows the store changes.
ClaimRows(t) == IF task_queue[t].status = "PENDING" THEN 1 ELSE 0

\* worker.py:568: what fetch_pending_task returns after the conditional
\* update that changed `rows` rows: the selected task, whatever `rows` is.
ClaimedTask(t, rows) == t

\* fetch_pending_task, first store call (worker.py:545-555), with an empty
\* result: run_worker sleeps poll_interval and polls again (worker.py:682-685).
PollEmpty(w) ==
    /\ worker[w].pc = "poll"
    /\ PendingIds = {}
    /\ worker' = [worker EXCEPT ![w] = NextPoll(@, @.poll_interval)]
    /\ UNCHANGED <<task_queue, invoked, nCreated>>
    /\ UNCHANGED notWorker

\* fetch_pending_task, first store call (worker.py:545-555), with a row.
SelectPending(w) ==
    /\ worker[w].pc = "poll"
    /\ PendingIds # {}
    /\ worker' = [worker EXCEPT ![w] =
            [@ EXCEPT !.pc = "claim", !.task = OldestPending,
                      !.task_type = task_queue[OldestPending].task_type,
                      !.success = FALSE, !.rows_updated = 0]]
    /\ UNCHANGED <<task_queue, invoked, nCreated>>
    /\ UNCHANGED notWorker

\* fetch_pending_task, second store call and return (worker.py:557-568).
Claim(w) ==
    /\ worker[w].pc = "claim"
    /\ LET t == worker[w].task
           rows == ClaimRows(t)
           got == ClaimedTask(t, rows)
       IN /\ task_queue' = IF rows = 1
                THEN [task_queue EXCEPT ![t].status = "PROCESSING"]
                ELSE task_queue
          /\ worker' = [worker EXCEPT ![w] =
                IF got = 0 THEN NextPoll(@, @.poll_interval)
                ELSE [@ EXCEPT !.pc = "process", !.rows_updated = rows,
                               !.failed_polls = 0]]
    /\ UNCHANGED <<invoked, nCreated>>
    /\ UNCHANGED notWorker

\* worker.py:609-612: TASK_HANDLERS.get(task_type); None for an unknown tag.
HasHandlerM(task_type) == TRUE
HasHandler(task_type) == task_type \in TASK_HANDLERS

\* worker.py:614-619: the value process_task returns for a handler outcome.
HandlerSuccess(outcome) == outcome = "true"

\* worker.py:614-619: `except Exception` around the handler call catches
\* whatever the handler raises.
CatchesM(outcome) == outcome # "raise"
Catches(outcome) == TRUE

\* run_worker's own except clause (worker.py:689-701): count the error, exit
\* at max_consecutive_errors, otherwise sleep and poll again.  The task the
\* iteration held is dropped.
MainLoopExceptM(wk) ==
    [IdleWorker EXCEPT
        !.poll_interval = wk.poll_interval,
        !.raised_run = wk.raised_run + 1,
        !.consecutive_errors = wk.consecutive_errors + 1,
        !.sleep_time = IF wk.consecutive_errors + 1 > max_consecutive_errors
                       THEN wk.sleep_time
                       ELSE ErrorSleep(wk.poll_interval, wk.consecutive_errors + 1),
        !.pc = IF wk.consecutive_errors + 1 > max_consecutive_errors
               THEN "exited" ELSE "poll"]
MainLoopExcept(wk) ==
    [IdleWorker EXCEPT
        !.poll_interval = wk.poll_interval,
        !.raised_run = wk.raised_run + 1,
        !.consecutive_errors = wk.consecutive_errors + 1,
        !.sleep_time = IF wk.consecutive_errors + 1 >= max_consecutive_errors
                       THEN wk.sleep_time
                       ELSE ErrorSleep(wk.poll_interval, wk.consecutive_errors + 1),
        !.pc = IF wk.consecutive_errors + 1 >= max_consecutive_errors
               THEN "exited" ELSE "poll"]

\* process_task (worker.py:594-619), called from run_worker (worker.py:667).
ProcessTask(w) ==
    /\ worker[w].pc = "process"
    /\ LET t == worker[w].task
           ty == worker[w].task_type
       IN IF HasHandler(ty)
          THEN \E run \in HandlerRuns(ty, ParsePayload(task_queue[t].payload)) :
                /\ invoked' = [invoked EXCEPT ![t] = @ \cup {w}]
                /\ worker' = [worker EXCEPT ![w] =
                        IF Catches(run.outcome)
                        THEN [@ EXCEPT !.pc = "finalize",
                                       !.success = HandlerSuccess(run.outcome),
                                       !.exc = run.exc,
                                       !.sync_called = run.sync_called]
                        ELSE MainLoopExcept(@)]
          ELSE /\ invoked' = invoked
               /\ worker' = [worker EXCEPT ![w].pc = "finalize",
                                           ![w].success = FALSE]
    /\ UNCHANGED <<task_queue, nCreated>>
    /\ UNCHANGED notWorker

\* worker.py:670-674: the status run_worker asks update_task_status to write.
FinalStatus(success) == IF success THEN "COMPLETED" ELSE "FAILED"

\* worker.py:674 and 582-584: the error text written with a FAILED status.
FinalError(success) == IF success THEN "" ELSE "Task handler returned failure"

\* update_task_status (worker.py:574-591): update ... where id = task id.
update_task_status(t, status, error) ==
    [task_queue EXCEPT ![t].status = status,
                       ![t].error_log = IF error # "" THEN Truncate(error) ELSE @]

\* run_worker after process_task (worker.py:669-681).
Finalize(w) ==
    /\ worker[w].pc = "finalize"
    /\ task_queue' = update_task_status(worker[w].task,
                                        FinalStatus(worker[w].success),
                                        FinalError(worker[w].success))
    /\ worker' = [worker EXCEPT ![w] = NextPoll(@, TaskPause)]
    /\ UNCHANGED <<invoked, nCreated>>
    /\ UNCHANGED notWorker

NextWorker ==
    \/ \E t \in TaskIds, ty \in ProducedTypes : Produce(t, ty)
    \/ \E w \in Workers : PollEmpty(w)
    \/ \E w \in Workers : SelectPending(w)
    \/ \E w \in Workers : Claim(w)
    \/ \E w \in Workers : ProcessTask(w)
    \/ \E w \in Workers : Finalize(w)

(***************************************************************************)
(* The worker with an unreliable environment: store calls that raise and   *)
(* a standard output that raises on write.  One worker process runs.       *)
(***************************************************************************)
SoloWorkers == {1}

\* The consecutive failed calls of fetch_pending_task, counted up to the limit.
CountFailedPoll(wk) ==
    IF wk.failed_polls < max_consecutive_errors THEN wk.failed_polls + 1
    ELSE wk.failed_polls

\* fetch_pending_task when the select raises (worker.py:541-555, 569-571):
\* the except clause prints and returns None; run_worker takes the branch of
\* an empty queue (worker.py:682-685).
PollStoreDown(w) ==
    /\ worker[w].pc = "poll"
    /\ worker' = [worker EXCEPT ![w] =
            [NextPoll(@, @.poll_interval) EXCEPT
                !.failed_polls = CountFailedPoll(worker[w])]]
    /\ UNCHANGED <<task_queue, invoked, nCreated>>
    /\ UNCHANGED notWorker

\* fetch_pending_task when the claiming update raises (worker.py:557-571):
\* the row stays PENDING and the function returns None.
ClaimStoreDown(w) ==
    /\ worker[w].pc = "claim"
    /\ worker' = [worker EXCEPT ![w] =
            [NextPoll(@, @.poll_interval) EXCEPT
                !.failed_polls = CountFailedPoll(worker[w])]]
    /\ UNCHANGED <<task_queue, invoked, nCreated>>
    /\ UNCHANGED notWorker

\* update_task_status when the update raises (worker.py:586-591): the except
\* clause prints; the row keeps the status PROCESSING.
FinalizeStoreDown(w) ==
    /\ worker[w].pc = "finalize"
    /\ worker' = [worker EXCEPT ![w] = NextPoll(@, TaskPause)]
    /\ UNCHANGED <<task_queue, invoked, nCreated>>
    /\ UNCHANGED notWorker

\* A write to standard output raises in run_worker or in process_task before
\* the handler call (print at worker.py:664, logger at 606-607): the
\* exception reaches run_worker's except clause.  The row stays PROCESSING.
LogRaises(w) ==
    /\ worker[w].pc = "process"
    /\ worker' = [worker EXCEPT ![w] = MainLoopExcept(@)]
    /\ UNCHANGED <<task_queue, invoked, nCreated>>
    /\ UNCHANGED notWorker

\* fetch_pending_task when the select raises and the print of its except
\* clause raises too (worker.py:569-570): the exception leaves
\* fetch_pending_task and reaches run_worker's except clause.
PollLogRaises(w) ==
    /\ worker[w].pc = "poll"
    /\ worker' = [worker EXCEPT ![w] = MainLoopExcept(@)]
    /\ UNCHANGED <<task_queue, invoked, nCreated>>
    /\ UNCHANGED notWorker

\* The worker has been running: it starts an iteration with errors already
\* counted for earlier tasks, or with none.
StartErrors == { 0, max_consecutive_errors - 2 }

InitSolo ==
    /\ task_queue = [t \in TaskIds |-> NoRow]
    /\ \E e \in StartErrors, poll_interval \in PollIntervals :
          worker = [w \in Workers |->
                       IF w \in SoloWorkers
                       THEN [IdleWorker EXCEPT
                                !.poll_interval = poll_interval,
                                !.consecutive_errors = e, !.raised_run = e,
                                !.sleep_time = IF e = 0 THEN 0
                                               ELSE ErrorSleep(poll_interval, e)]
                       ELSE IdleWorker]
    /\ invoked = [t \in TaskIds |-> {}]
    /\ nCreated = 0

NextSolo ==
    \/ \E t \in TaskIds, ty \in SoloTypes, payload \in Payloads : Insert(t, ty, payload)
    \/ \E w \in SoloWorkers : PollEmpty(w)
    \/ \E w \in SoloWorkers : SelectPending(w)
    \/ \E w \in SoloWorkers : Claim(w)
    \/ \E w \in SoloWorkers : ProcessTask(w)
    \/ \E w \in SoloWorkers : Finalize(w)
    \/ \E w \in SoloWorkers : PollStoreDown(w)
    \/ \E w \in SoloWorkers : ClaimStoreDown(w)
    \/ \E w \in SoloWorkers : FinalizeStoreDown(w)
    \/ \E w \in SoloWorkers : LogRaises(w)
    \/ \E w \in SoloWorkers : PollLogRaises(w)

(***************************************************************************)
(* Claims about the task-queue worker, checked under Spec.                 *)
(***************************************************************************)

UnknownType(t) ==
    /\ task_queue[t].status # "NONE"
    /\ task_queue[t].task_type \notin TASK_HANDLERS

\* C1: when two workers select the same PENDING row, the worker whose
\* conditional update changed zero rows gets no task back (it never goes on
\* to process or finalize the task), so the handler of a task is run by at
\* most one worker.
C1_ClaimExclusive ==
    /\ \A w \in Workers :
          worker[w].pc \in {"process", "finalize"} => worker[w].rows_updated = 1
    /\ \A t \in TaskIds : Cardinality(invoked[t]) <= 1

\* The edges a worker may take, and the producer's insert of a new row.
StatusEdges ==
    { <<"NONE", "PENDING">>, <<"PENDING", "PROCESSING">>,
      <<"PROCESSING", "COMPLETED">>, <<"PROCESSING", "FAILED">> }

\* C2: every status change of a task_queue row follows PENDING->PROCESSING,
\* PROCESSING->COMPLETED or PROCESSING->FAILED: no row goes back to PENDING
\* and the status of a COMPLETED or FAILED row never changes.
C2_StatusEdgesOnly ==
    [][\A t \in TaskIds :
          task_queue'[t].status # task_queue[t].status
          => <<task_queue[t].status, task_queue'[t].status>> \in StatusEdges]_vars

\* C10: for a claimed task whose task_type is no key of TASK_HANDLERS no
\* handler is invoked, the worker that finishes with it writes FAILED (the row
\* is never COMPLETED), and once the row is FAILED it stays FAILED and no
\* later poll selects it.
C10_UnknownTypeTerminal ==
    /\ [](\A t \in TaskIds :
            UnknownType(t) => /\ invoked[t] = {}
                              /\ task_queue[t].status # "COMPLETED")
    /\ [][\A t \in TaskIds : UnknownType(t) =>
            /\ \A w \in Workers :
                  (worker[w].pc = "finalize" /\ worker[w].task = t
                        /\ worker'[w].pc = "poll")
                  => task_queue'[t].status = "FAILED"
            /\ task_queue[t].status = "FAILED" =>
                  /\ task_queue'[t].status = "FAILED"
                  /\ \A w \in Workers :
                        ~(worker[w].pc = "poll" /\ worker'[w].pc = "claim"
                            /\ worker'[w].task = t)]_vars

\* An unknown-type task has been claimed, finished and written FAILED, and a
\* worker is polling again while another task is PENDING.
C10_Witness ==
    \E t \in TaskIds, w \in Workers :
        /\ UnknownType(t)
        /\ task_queue[t].status = "FAILED"
        /\ task_queue[t].error_log = "Task handler returned failure"
        /\ worker[w].pc = "poll"
        /\ PendingIds # {}

(***************************************************************************)
(* Claims about the worker in an unreliable environment, checked under     *)
(* SpecSolo.                                                               *)
(***************************************************************************)

\* The step in which worker w called the handler of its task.
HandlerRan(w) == worker[w].pc = "process" /\ invoked' # invoked

\* The step in which worker w's terminal status reached the row of its task.
StatusWritten(w) ==
    /\ worker[w].pc = "finalize"
    /\ task_queue'[worker[w].task].status # task_queue[worker[w].task].status

C12_ErrorLogIsExceptionText ==
    [][\A w \in Workers :
          (StatusWritten(w) /\ worker[w].exc # "") =>
              /\ task_queue'[worker[w].task].error_log = Truncate(worker[w].exc)
              /\ TextLen(task_queue'[worker[w].task].error_log) <= ErrorLimit]_vars

\* C13: a worker whose calls of fetch_pending_task have failed on the store
\* max_consecutive_errors times in a row has exited.
C13_StoreDownExits ==
    \A w \in Workers :
        worker[w].failed_polls >= max_consecutive_errors => worker[w].pc = "exited"

Created(t) == task_queue[t].status # "NONE"

Older(u, t) == Created(u) /\ task_queue[u].created_at < task_queue[t].created_at

\* C14: with a single worker, the row fetch_pending_task selects is the
\* PENDING row with the smallest created_at, and when a task is handed to
\* process_task no older task is PENDING: every older task was taken before.
C14_OldestFirst ==
    [][\A w \in Workers :
          /\ (worker[w].pc = "poll" /\ worker'[w].pc = "claim") =>
                /\ worker'[w].task \in PendingIds
                /\ \A u \in PendingIds : ~Older(u, worker'[w].task)
          /\ (worker[w].pc = "claim" /\ worker'[w].pc = "process") =>
                \A u \in TaskIds :
                    Older(u, worker[w].task) => task_queue'[u].status # "PENDING"]_vars

\* The worker processes the task created first while a task created later,
\* with a smaller id, is PENDING.
C14_Witness ==
    \E w \in Workers, u \in TaskIds :
        /\ worker[w].pc = "process"
        /\ u < worker[w].task
        /\ Older(worker[w].task, u)
        /\ task_queue[u].status = "PENDING"

\* The task types whose handler needs fields of the payload
\* (worker.py:80-89 game_id or game_ids, worker.py:357-363 start_date and
\* end_date).
NeedsFields == { "SYNC_LIVE_GAME", "BACKFILL_DATA" }

\* A payload string that is not valid JSON, or a payload without the fields
\* its task type needs.
Malformed(task_type, payload) ==
    \/ payload = "not_json"
    \/ payload = "no_fields" /\ task_type \in NeedsFields

\* C15: a task whose payload is malformed ends FAILED without any sync being
\* attempted for it, and a FAILED task is not taken again.
C15_MalformedPayloadFails ==
    [][\A w \in Workers :
          /\ (StatusWritten(w) /\ HasHandler(worker[w].task_type)
                /\ Malformed(worker[w].task_type, task_queue[worker[w].task].payload)) =>
                /\ task_queue'[worker[w].task].status = "FAILED"
                /\ ~worker[w].sync_called
          /\ (worker[w].pc = "poll" /\ worker'[w].pc = "claim") =>
                task_queue[worker'[w].task].status # "FAILED"]_vars

\* C25: when the worker goes from the status write of its task to the next
\* poll, the task is COMPLETED or FAILED and no longer PROCESSING, also when
\* the store call that writes the terminal status raises.
C25_NoClaimLeftProcessing ==
    [][\A w \in SoloWorkers :
          (worker[w].pc = "finalize" /\ worker'[w].pc = "poll") =>
              task_queue'[worker[w].task].status \in {"COMPLETED", "FAILED"}]_vars

\* The step in which an iteration of worker w's main loop ended.
IterationEnded(w) ==
    /\ worker'[w] # worker[w]
    /\ worker'[w].pc \in {"poll", "exited"}

\* The step in which an iteration of worker w's main loop ended in
\* run_worker's except clause.
IterationRaised(w) ==
    /\ IterationEnded(w)
    /\ worker'[w].raised_run = worker[w].raised_run + 1

MaxRetries == 5

\* The values of max_retries a caller passes (0 makes the loop body never
\* run; 5 is the default).
RetryBudgets == {0, 1, 2, MaxRetries}

\* base_delay at the call sites: 5.0 (default), 3.0 and 2.0.
BaseDelays == {2, 3, 5}

\* os.environ.get('NBA_STATS_PROXY'): not set, set to '', set to a proxy URL.
EnvProxies == {"unset", "empty", "url"}

CallOutcomes ==
    { "ok",
      "timeout",        \* ReadTimeout, Timeout (utils.py:156)
      "conn_reset",     \* ConnectionError naming a proxy/SSL/reset failure (176-178)
      "conn_other",     \* any other ConnectionError (169)
      "http_429",       \* HTTPError with status 429 (189-192)
      "http_other",     \* any other HTTPError (183)
      "exc_proxy",      \* other exception naming a proxy/SSL failure (201-205)
      "exc_rate",       \* other exception naming RemoteDisconnected or 429 (206-207)
      "exc_empty",      \* the known AttributeError of an empty response (209-210)
      "exc_other" }     \* any other exception (211-212)

IdleCall ==
    [pc |-> "idle", env_proxy |-> "unset", max_retries |-> 0, base_delay |-> 0,
     attempt |-> 0, calls |-> 0, rate_limited |-> FALSE, proxy_failure |-> FALSE,
     all_timeout |-> FALSE, last_error |-> "", delay |-> 0, fast |-> FALSE,
     penalty |-> FALSE, sleeps |-> 0, result |-> "",
     old_proxy |-> "None", old_session |-> "None",
     http_before |-> [PROXY |-> "", base_session |-> "None",
                      stats_session |-> "None"]]

\* The states the nba_api module can be in before a call: PROXY unset or set by
\* someone else, NBAHTTP._session, and NBAStatsHTTP._session, which is the
\* subclass's own session once NBAStatsHTTP.get_session() has run
\* (utils.py:118-120).
HttpStates ==
    [PROXY : {"", "other"}, base_session : {"None", "s0"},
     stats_session : {"None", "s1"}]

InitFetch ==
    /\ sc = IdleCall
    /\ nba_http \in HttpStates

\* utils.py:102: `if proxy_url_template:`.
ProxyConfigured(env_proxy) == env_proxy = "url"

\* utils.py:107-123, _apply_proxy.
ApplyProxy(env_proxy, http) ==
    IF ~ProxyConfigured(env_proxy) THEN http
    ELSE [PROXY |-> "template", base_session |-> "fresh", stats_session |-> "fresh"]

\* utils.py:125-132, _restore_proxy.
RestoreProxy(c, http) ==
    IF c.env_proxy = "unset" THEN http
    ELSE [PROXY |-> IF c.old_proxy # "None" THEN c.old_proxy ELSE "",
          base_session |-> c.old_session, stats_session |-> c.old_session]

\* utils.py:97-105 and 134-138: entry of safe_call_nba_api.
StartCall(env_proxy, max_retries, base_delay) ==
    /\ sc.pc = "idle"
    /\ sc' = [IdleCall EXCEPT
                !.pc = "loop", !.env_proxy = env_proxy,
                !.max_retries = max_retries, !.base_delay = base_delay,
                !.attempt = 1, !.all_timeout = TRUE,
                !.http_before = nba_http,
                !.old_proxy = IF ProxyConfigured(env_proxy)
                              THEN nba_http.PROXY ELSE "None",
                !.old_session = IF ProxyConfigured(env_proxy)
                                THEN nba_http.base_session ELSE "None"]
    /\ UNCHANGED nba_http
    /\ UNCHANGED notFetch

\* utils.py:156-212: the flags after a failed attempt.
\* [rate_limited, proxy_failure, abort]
ClassifyM(outcome, c) ==
    [rate_limited |-> c.rate_limited \/ outcome \in {"http_429", "exc_rate"},
     proxy_failure |-> c.proxy_failure \/ outcome \in {"conn_reset", "exc_proxy"},
     abort |-> FALSE]
Classify(outcome, c) ==
    CASE outcome = "timeout" ->
            IF ProxyConfigured(c.env_proxy)
            THEN [rate_limited |-> c.rate_limited, proxy_failure |-> TRUE, abort |-> FALSE]
            ELSE [rate_limited |-> TRUE, proxy_failure |-> c.proxy_failure, abort |-> FALSE]
      [] outcome \in {"conn_reset", "exc_proxy"} ->
            [rate_limited |-> c.rate_limited, proxy_failure |-> TRUE, abort |-> FALSE]
      [] outcome \in {"http_429", "exc_rate"} ->
            [rate_limited |-> TRUE, proxy_failure |-> c.proxy_failure, abort |-> FALSE]
      [] outcome \in {"conn_other", "http_other", "exc_empty"} ->
            [rate_limited |-> c.rate_limited, proxy_failure |-> c.proxy_failure,
             abort |-> FALSE]
      [] OTHER ->
            [rate_limited |-> c.rate_limited, proxy_failure |-> c.proxy_failure,
             abort |-> TRUE]

\* utils.py:220-221: min(base_delay * (2 ** (attempt - 1)), 30.0).
BackoffM(base_delay, attempt) == base_delay * Pow2(attempt - 1)
Backoff(base_delay, attempt) == Min(base_delay * Pow2(attempt - 1), 30)

\* utils.py:214: whether a failed attempt is followed by a sleep and a retry.
ShouldRetryM(attempt, max_retries) == attempt + 1 < max_retries
ShouldRetry(attempt, max_retries) == attempt < max_retries

\* utils.py:140-231: one pass of the while loop that calls call_fn.
Attempt(outcome) ==
    /\ sc.pc = "loop"
    /\ sc.attempt <= sc.max_retries
    /\ LET applied == ApplyProxy(sc.env_proxy, nba_http)
           c0 == [sc EXCEPT !.calls = @ + 1,
                            !.all_timeout = @ /\ outcome = "timeout",
                            !.last_error = IF outcome = "ok" THEN @ ELSE outcome]
           f == Classify(outcome, c0)
           c1 == [c0 EXCEPT !.rate_limited = f.rate_limited,
                            !.proxy_failure = f.proxy_failure]
       IN IF outcome = "ok"
          THEN /\ sc' = [c0 EXCEPT !.pc = "done", !.result = "result"]
               /\ nba_http' = RestoreProxy(sc, applied)
          ELSE IF f.abort \/ ~ShouldRetry(sc.attempt, sc.max_retries)
          THEN /\ sc' = [c1 EXCEPT !.pc = "done", !.result = "None"]
               /\ nba_http' = RestoreProxy(sc, applied)
          ELSE IF c1.proxy_failure
          THEN \E j \in {0, 5} :
                /\ sc' = [c1 EXCEPT !.delay = 3 + j, !.fast = TRUE, !.penalty = FALSE,
                                    !.proxy_failure = FALSE,
                                    !.sleeps = @ + 1, !.attempt = @ + 1]
                /\ nba_http' = applied
          ELSE \E extra \in {30, 60}, j \in {0, 3} :
                /\ sc' = [c1 EXCEPT
                            !.delay = Backoff(sc.base_delay, sc.attempt)
                                      + (IF c1.rate_limited THEN extra ELSE 0) + j,
                            !.fast = FALSE, !.penalty = c1.rate_limited,
                            !.sleeps = @ + 1, !.attempt = @ + 1]
                /\ nba_http' = applied
    /\ UNCHANGED notFetch

\* utils.py:140 and 233-238: the loop is not entered (max_retries < 1).
NoAttempt ==
    /\ sc.pc = "loop"
    /\ sc.attempt > sc.max_retries
    /\ sc' = [sc EXCEPT !.pc = "done", !.result = "None"]
    /\ nba_http' = RestoreProxy(sc, nba_http)
    /\ UNCHANGED notFetch

\* The caller takes the result; the next call starts from the module state
\* this one left.
ReturnCall ==
    /\ sc.pc = "done"
    /\ sc' = IdleCall
    /\ UNCHANGED nba_http
    /\ UNCHANGED notFetch

NextFetch ==
    \/ \E e \in EnvProxies, m \in RetryBudgets, b \in BaseDelays : StartCall(e, m, b)
    \/ \E o \in CallOutcomes : Attempt(o)
    \/ NoAttempt
    \/ ReturnCall

(***************************************************************************)
(* Claims about safe_call_nba_api, checked under SpecFetch.                *)
(***************************************************************************)

\* C3: for any max_retries >= 1, if call_fn raises a timeout-class error on
\* every attempt, call_fn is invoked exactly max_retries times and the call
\* returns None, with or without a proxy configured; while the call is still
\* running it has made one call per finished attempt.
C3_TimeoutExhaustion ==
    (sc.all_timeout /\ sc.max_retries >= 1) =>
        /\ sc.pc = "loop" => sc.calls = sc.attempt - 1
        /\ sc.pc = "done" => /\ sc.calls = sc.max_retries
                             /\ sc.result = "None"

\* A call with a proxy configured and a budget of at least two attempts has
\* ended after nothing but timeouts.
C3_Witness ==
    /\ sc.pc = "done"
    /\ sc.all_timeout
    /\ sc.env_proxy = "url"
    /\ sc.max_retries >= 2
    /\ sc.calls = sc.max_retries
    /\ sc.last_error = "timeout"

\* The step in which call_fn was invoked and raised `outcome`.
FailedWith(outcome) ==
    /\ sc.pc = "loop"
    /\ sc'.calls = sc.calls + 1
    /\ sc'.result # "result"
    /\ sc'.last_error = outcome

\* The step in which safe_call_nba_api slept before the next attempt.
Slept == sc.pc = "loop" /\ sc'.sleeps = sc.sleeps + 1

\* C22: an exception of call_fn that no except clause or string test
\* classifies, and that is not the known empty-response AttributeError, ends
\* the call at once: no backoff sleep, no further call of call_fn, result
\* None.  The known AttributeError is retried (with a sleep) while attempts
\* remain, so a call that ends on it has used all max_retries attempts.
C22_UnclassifiedAborts ==
    [][/\ FailedWith("exc_other") =>
            /\ sc'.pc = "done"
            /\ sc'.result = "None"
            /\ sc'.sleeps = sc.sleeps
       /\ FailedWith("exc_empty") =>
            IF sc.attempt < sc.max_retries
            THEN /\ sc'.pc = "loop"
                 /\ sc'.attempt = sc.attempt + 1
                 /\ sc'.sleeps = sc.sleeps + 1
            ELSE /\ sc'.pc = "done"
                 /\ sc'.result = "None"
                 /\ sc'.calls = sc.max_retries
       /\ sc.pc = "done" => sc'.calls \in {sc.calls, 0}]_vars

\* A call with five attempts allowed has ended on an unclassified exception
\* of its second attempt, after one sleep.
C22_Witness ==
    /\ sc.pc = "done"
    /\ sc.last_error = "exc_other"
    /\ sc.result = "None"
    /\ sc.max_retries = 5
    /\ sc.calls = 2
    /\ sc.sleeps = 1

C24_FastRotationNeedsProxy ==
    [][Slept =>
          /\ sc'.fast => ProxyConfigured(sc.env_proxy)
          /\ (~ProxyConfigured(sc.env_proxy)
                /\ (FailedWith("timeout") \/ FailedWith("conn_reset"))) =>
                /\ ~sc'.fast
                /\ sc'.penalty
                /\ sc'.delay >= Backoff(sc.base_delay, sc.attempt) + 30]_vars

\* C29: when safe_call_nba_api has ended, on any exit path and for any value
\* of NBA_STATS_PROXY, nba_api's PROXY and the two _session attributes are
\* what they were when the call started.
C29_ProxyStateRestored ==
    sc.pc = "done" => nba_http = sc.http_before

\* The failures that the except clauses classify as rate-limited
\* (utils.py:167, 192, 207).
RateLimitedFailure ==
    \/ FailedWith("http_429")
    \/ FailedWith("exc_rate")
    \/ FailedWith("timeout") /\ ~ProxyConfigured(sc.env_proxy)

\* C30: within one call, the rate-limit penalty is part of a retry delay
\* only when the failure right before that delay was classified as
\* rate-limited.
C30_PenaltyOnlyAfterRateLimit ==
    [][(Slept /\ sc'.penalty) => RateLimitedFailure]_vars

(***************************************************************************)
(* services/*.py: the entity transformers.                                 *)
(*                                                                         *)
(* A value read from a provider dict is tagged: I(n) an integer, PyNone a  *)
(* missing key or None, EmptyStr the string '', BadStr a string that is no *)
(* number.  A nullable column of a store record is tagged the same way.    *)
(* A transformer's skip (None) is the record Skip.                         *)
(***************************************************************************)
I(n) == [k |-> "int", v |-> n]
PyNone == [k |-> "none", v |-> 0]
EmptyStr == [k |-> "empty", v |-> 0]
BadStr == [k |-> "bad", v |-> 0]

Skip == [skip |-> TRUE]

\* game_player_stats_service.py:12-28 (and the copy in
\* game_player_advanced_stats_service.py:17-24): _safe_int.
SafeInt(value, default) == IF value.k = "int" THEN value.v ELSE default

\* game_player_advanced_stats_service.py:27-34: _safe_float, None when invalid.
SafeFloatOrNone(value) == IF value.k = "int" THEN value ELSE PyNone

\* game_player_stats_service.py:254 / advanced:98: `if not stats`.
NoStats == [present |-> FALSE, minutes |-> PyNone, points |-> PyNone]

\* game_player_stats_service.py:258-262: the minutes text, None when empty.
MinPlayed(minutes) == IF minutes.k \in {"none", "empty"} THEN PyNone ELSE minutes

\* game_player_stats_service.py:248-252: the foreign-key checks of a box-score line.
PlayerStatFkOk(player_id, team_id, valid_player_ids, valid_team_ids) ==
    /\ ~(player_id = 0 \/ player_id \notin valid_player_ids)
    /\ ~(team_id = 0 \/ team_id \notin valid_team_ids)

\* game_player_stats_service.py:224-317: _transform_player_stat.  Of the
\* counting stats only pts is carried; the others are coerced the same way.
TransformPlayerStat(stat_dict, game_id, valid_player_ids, valid_team_ids) ==
    LET player_id == SafeInt(stat_dict.PLAYER_ID, 0)
        team_id == SafeInt(stat_dict.TEAM_ID, 0)
        stats == stat_dict.statistics
    IN IF ~PlayerStatFkOk(player_id, team_id, valid_player_ids, valid_team_ids)
       THEN Skip
       ELSE IF ~stats.present THEN Skip
       ELSE [skip |-> FALSE, game_id |-> game_id, player_id |-> player_id,
             team_id |-> team_id, min |-> MinPlayed(stats.minutes),
             pts |-> SafeInt(stats.points, 0)]

\* game_player_advanced_stats_service.py:92-94: the team id of an advanced
\* stats record.
AdvancedTeamId(team_id, valid_team_ids) ==
    IF team_id \notin valid_team_ids THEN PyNone ELSE I(team_id)

\* game_player_advanced_stats_service.py:64-122: _transform_player_advanced_stats.
\* Of the rating columns only off_rating is carried.
TransformPlayerAdvancedStats(player, game_id, team_id, valid_player_ids, valid_team_ids) ==
    LET player_id == SafeInt(player.personId, 0)
        stats == player.statistics
    IN IF player_id = 0 THEN Skip
       ELSE IF player_id \notin valid_player_ids THEN Skip
       ELSE IF ~stats.present THEN Skip
       ELSE [skip |-> FALSE, game_id |-> game_id, player_id |-> player_id,
             team_id |-> AdvancedTeamId(team_id, valid_team_ids),
             off_rating |-> SafeFloatOrNone(stats.offensiveRating)]

(***************************************************************************)
(* Game rows: times.  A datetime is a number of seconds; a provider time   *)
(* string is a record of its format f and, where it has one, its value t:  *)
(*   "iso"    YYYY-MM-DDTHH:MM:SS        "isoZ"   the same with a Z suffix *)
(*   "isoOff" the same with +00:00       "date"   YYYY-MM-DD               *)
(*   "empty"  ''    "badT" / "bad"  no date, with / without a letter T     *)
(***************************************************************************)
Hour == 60 * 60
Day == 24 * Hour
MaxDay == 3
GameDays == 1..MaxDay
\* US/Eastern is on daylight time on these days of the model's calendar.
SummerDays == {MaxDay}
TimesOfDay == {0, 1, 12 * Hour, 19 * Hour, 20 * Hour}

DayOf(t) == t \div Day
TimeOfDay(t) == t % Day
At(day, tod) == day * Day + tod

TimeStr(f, t) == [f |-> f, t |-> t]
Stamps == {At(d, tod) : d \in GameDays, tod \in TimesOfDay}
TimeStrs ==
    {TimeStr(f, t) : f \in {"iso", "isoZ", "isoOff"}, t \in Stamps}
    \cup {TimeStr("date", At(d, 0)) : d \in GameDays}
    \cup {TimeStr("empty", 0), TimeStr("badT", 0), TimeStr("bad", 0)}
Nows == {At(1, 12 * Hour), At(2, 0), At(MaxDay + 1, 0)}

\* pytz US/Eastern: localize a naive wall-clock time and convert it to UTC.
EasternToUTC(local) ==
    IF DayOf(local) \in SummerDays THEN local + 4 * Hour ELSE local + 5 * Hour

\* game_service.py:54-69 and schedule_service.py:62-77: _map_game_status.
MapGameStatus(status_code) ==
    IF status_code = I(1) THEN "Scheduled"
    ELSE IF status_code = I(2) THEN "Live"
    ELSE IF status_code = I(3) THEN "Final"
    ELSE "Scheduled"

\* GAME_STATUS_TEXT: pm says the text has 'pm' and 'ET', ok that the rest
\* parses as '%I:%M %p', tod the time it then names.
StatusTexts ==
    {[pm |-> FALSE, ok |-> FALSE, tod |-> 0],
     [pm |-> TRUE, ok |-> FALSE, tod |-> 0],
     [pm |-> TRUE, ok |-> TRUE, tod |-> 19 * Hour],
     [pm |-> TRUE, ok |-> TRUE, tod |-> 20 * Hour]}

\* game_service.py:196-236: gameTimeUTC of a scoreboard row in
\* _fetch_games_for_date.  local_now is datetime.now().
ScoreboardGameTimeUTC(game_date_est, status_id, status_text, local_now) ==
    IF game_date_est.f \notin {"iso", "empty"}
    THEN game_date_est      \* strptime raises: the raw string is kept
    ELSE LET base == IF game_date_est.f = "iso" THEN game_date_est.t ELSE local_now
             dt_est == IF status_id = I(1) /\ status_text.pm /\ status_text.ok
                       THEN At(DayOf(base), status_text.tod)
                       ELSE base
         IN TimeStr("isoOff", EasternToUTC(dt_est))

\* game_service.py:238-256: the game dict _fetch_games_for_date builds from
\* a scoreboard row merged with its line scores.
ScoreboardGame(row, local_now) ==
    [gameId |-> row.GAME_ID,
     gameTimeUTC |-> ScoreboardGameTimeUTC(row.GAME_DATE_EST, row.GAME_STATUS_ID,
                                           row.GAME_STATUS_TEXT, local_now),
     gameStatus |-> row.GAME_STATUS_ID,
     home_tricode |-> row.home_tricode, away_tricode |-> row.away_tricode,
     home_score |-> row.home_score, away_score |-> row.away_score]

\* game_service.py:303-335: the datetime and the TBD flag of a game row.
\* ok is FALSE where the code returns None.
ParseGameTime(game_time_utc) ==
    IF game_time_utc.f \in {"iso", "isoZ", "isoOff"}
    THEN [ok |-> TRUE, dt |-> game_time_utc.t,
          is_time_tbd |-> (TimeOfDay(game_time_utc.t) = 0)]
    ELSE IF game_time_utc.f = "date"
    THEN [ok |-> TRUE, dt |-> At(DayOf(game_time_utc.t), 12 * Hour),
          is_time_tbd |-> TRUE]
    ELSE [ok |-> FALSE, dt |-> 0, is_time_tbd |-> FALSE]

\* game_service.py:353-362: the status of a game row.
CorrectedStatusM(status, game_datetime, now_utc, home_score, away_score) ==
    IF home_score # PyNone /\ away_score # PyNone THEN "Final" ELSE status
CorrectedStatus(status, game_datetime, now_utc, home_score, away_score) ==
    IF game_datetime < now_utc /\ home_score # PyNone /\ away_score # PyNone
    THEN "Final"
    ELSE status

\* game_service.py:357-366: the _needs_refetch mark set on the input game.
NeedsRefetch(status, game_datetime, now_utc, home_score, away_score) ==
    /\ game_datetime < now_utc
    /\ ~(home_score # PyNone /\ away_score # PyNone)
    /\ status = "Scheduled"

\* An NBA game id is ten digits, the first two its game type (01 the
\* playoffs); NoGameId is a missing or empty id.
GameId(type, serial) == [type |-> type, serial |-> serial]
NoGameId == GameId("", 0)

\* team_map.get(tricode): 0 when the tricode is not in the map.
TeamMapGet(team_map, tricode) ==
    IF tricode \in DOMAIN team_map THEN team_map[tricode] ELSE 0

\* game_service.py:261-396: _transform_game_data.  season, arena_name,
\* updated_at and the legacy game_date / game_time columns are left out;
\* needs_refetch is the mark left on the input, not a column.
TransformGameData(game, team_map, now_utc) ==
    LET home_team_id == TeamMapGet(team_map, game.home_tricode)
        away_team_id == TeamMapGet(team_map, game.away_tricode)
        parsed == ParseGameTime(game.gameTimeUTC)
        status == MapGameStatus(game.gameStatus)
    IN IF game.gameId = NoGameId THEN Skip
       ELSE IF home_team_id = 0 \/ away_team_id = 0 THEN Skip
       ELSE IF game.gameTimeUTC.f = "empty" THEN Skip
       ELSE IF ~parsed.ok THEN Skip
       ELSE [skip |-> FALSE, id |-> game.gameId,
             game_datetime |-> parsed.dt,
             is_time_tbd |-> parsed.is_time_tbd,
             status |-> CorrectedStatus(status, parsed.dt, now_utc,
                                        game.home_score, game.away_score),
             is_playoff |-> (game.gameId.type = "01"),
             home_team_id |-> home_team_id, away_team_id |-> away_team_id,
             home_score |-> game.home_score, away_score |-> game.away_score,
             needs_refetch |-> NeedsRefetch(status, parsed.dt, now_utc,
                                            game.home_score, game.away_score)]

\* schedule_service.py:127-251: _fetch_game_schedule_info, from the box
\* score summary the fetch returned.  arena_name and updated_at are left out.
FetchGameScheduleInfo(game_id, box_summary, nba_team_id_to_db_id) ==
    LET game_time_et == box_summary.gameEt
        game_time_str == IF game_time_et.f # "empty" THEN game_time_et
                         ELSE box_summary.gameTimeUTC
        \* dt_str: a Z suffix is dropped, an offset makes strptime raise
        has_T == game_time_str.f \in {"iso", "isoZ", "isoOff", "badT"}
        parses == game_time_str.f \in {"iso", "isoZ", "date"}
        local == IF has_T THEN game_time_str.t
                 ELSE At(DayOf(game_time_str.t), 12 * Hour)
        is_time_tbd == IF has_T THEN TimeOfDay(game_time_str.t) = 0 ELSE TRUE
        game_datetime == IF has_T /\ game_time_et.f = "empty" THEN local
                         ELSE EasternToUTC(local)
        home_team_id == TeamMapGet(nba_team_id_to_db_id, box_summary.homeTeamId)
        away_team_id == TeamMapGet(nba_team_id_to_db_id, box_summary.awayTeamId)
    IN IF ~box_summary.present THEN Skip
       ELSE IF game_time_str.f = "empty" THEN Skip
       ELSE IF ~parses THEN Skip
       ELSE [skip |-> FALSE, id |-> game_id,
             game_datetime |-> game_datetime,
             is_time_tbd |-> is_time_tbd,
             status |-> MapGameStatus(box_summary.gameStatus),
             is_playoff |-> (game_id.type = "01"),
             home_team_id |-> IF home_team_id # 0 THEN I(home_team_id) ELSE PyNone,
             away_team_id |-> IF away_team_id # 0 THEN I(away_team_id) ELSE PyNone]

\* The ids and values the provider sends in the model.
ProviderIds == {PyNone, BadStr, I(0), I(1), I(2)}
ProviderTeamIds == {PyNone, I(0), I(10), I(20)}
ProviderStats ==
    {NoStats} \cup [present : {TRUE}, minutes : {PyNone, EmptyStr, BadStr},
                    points : {PyNone, BadStr, I(7)}]
StatDicts == [PLAYER_ID : ProviderIds, TEAM_ID : ProviderTeamIds,
              statistics : ProviderStats]
AdvProviderStats ==
    {[present |-> FALSE, offensiveRating |-> PyNone]}
    \cup [present : {TRUE}, offensiveRating : {PyNone, BadStr, I(112)}]
AdvPlayers == [personId : ProviderIds, statistics : AdvProviderStats]
PlayerTables == SUBSET {1, 2}
TeamTables == SUBSET {10, 20}
GameIds == {GameId("00", 1), GameId("01", 2)}

IdleTf == [op |-> "idle"]

DoTransformPlayerStat ==
    /\ tf.op = "idle"
    /\ \E d \in StatDicts, g \in GameIds, ps \in PlayerTables, ts \in TeamTables :
          tf' = [op |-> "player_stat", stat_dict |-> d, game_id |-> g,
                 valid_player_ids |-> ps, valid_team_ids |-> ts,
                 out |-> TransformPlayerStat(d, g, ps, ts)]
    /\ UNCHANGED notTransform

DoTransformPlayerAdvancedStats ==
    /\ tf.op = "idle"
    /\ \E pl \in AdvPlayers, g \in GameIds, t \in {0, 10, 20},
          ps \in PlayerTables, ts \in TeamTables :
          tf' = [op |-> "player_advanced", player |-> pl, game_id |-> g,
                 team_id |-> t, valid_player_ids |-> ps, valid_team_ids |-> ts,
                 out |-> TransformPlayerAdvancedStats(pl, g, t, ps, ts)]
    /\ UNCHANGED notTransform

StatusCodes == {PyNone, I(1), I(2), I(3), I(7)}
Scores == {PyNone, I(0), I(101)}
TeamMaps == {[c \in {"LAL", "BOS"} |-> IF c = "LAL" THEN 10 ELSE 20],
             [c \in {"LAL"} |-> 10]}
NbaTeamMaps == {[c \in {"1610612747", "1610612738"} |->
                    IF c = "1610612747" THEN 10 ELSE 20],
                [c \in {"1610612747"} |-> 10]}
LiveTimeStrs == {ts \in TimeStrs : ts.f # "iso" \/ TimeOfDay(ts.t) # 1}

\* _transform_game_data on a game dict in the live endpoint's format.
DoTransformGameData ==
    /\ tf.op = "idle"
    /\ \E gid \in GameIds \cup {NoGameId}, ts \in LiveTimeStrs,
          st \in StatusCodes, h \in {"", "LAL", "XXX"}, a \in {"BOS", "XXX"},
          hs \in Scores, as \in {PyNone, I(101)}, tm \in TeamMaps, now \in Nows :
          LET game == [gameId |-> gid, gameTimeUTC |-> ts, gameStatus |-> st,
                       home_tricode |-> h, away_tricode |-> a,
                       home_score |-> hs, away_score |-> as]
          IN tf' = [op |-> "game", game |-> game, team_map |-> tm, now |-> now,
                    out |-> TransformGameData(game, tm, now)]
    /\ UNCHANGED notTransform

\* The date-sync path: a ScoreboardV2 row through _fetch_games_for_date
\* (game_service.py:164-256) and then _transform_game_data.
DoDatePath ==
    /\ tf.op = "idle"
    /\ \E gid \in GameIds, gde \in TimeStrs, st \in StatusCodes,
          txt \in StatusTexts, hs \in {PyNone, I(101)}, as \in {PyNone, I(101)},
          tm \in TeamMaps, now \in Nows :
          LET row == [GAME_ID |-> gid, GAME_DATE_EST |-> gde,
                      GAME_STATUS_ID |-> st, GAME_STATUS_TEXT |-> txt,
                      home_tricode |-> "LAL", away_tricode |-> "BOS",
                      home_score |-> hs, away_score |-> as]
              game == ScoreboardGame(row, now)
          IN tf' = [op |-> "date_path", game_date_est |-> gde,
                    status_text |-> txt, game |-> game, team_map |-> tm,
                    now |-> now, out |-> TransformGameData(game, tm, now)]
    /\ UNCHANGED notTransform

\* The schedule path: _fetch_game_schedule_info on a fetched summary.
DoFetchGameScheduleInfo ==
    /\ tf.op = "idle"
    /\ \E gid \in GameIds, pr \in BOOLEAN, et \in TimeStrs,
          utc \in {TimeStr("empty", 0), TimeStr("isoZ", At(1, 0)),
                   TimeStr("isoZ", At(2, 1)), TimeStr("date", At(1, 0)),
                   TimeStr("bad", 0)},
          st \in StatusCodes, h \in {"", "1610612747"},
          a \in {"1610612738"}, tm \in NbaTeamMaps :
          LET box == [present |-> pr, gameEt |-> et, gameTimeUTC |-> utc,
                      gameStatus |-> st, homeTeamId |-> h, awayTeamId |-> a]
          IN tf' = [op |-> "schedule", game_id |-> gid, box_summary |-> box,
                    team_map |-> tm,
                    out |-> FetchGameScheduleInfo(gid, box, tm)]
    /\ UNCHANGED notTransform

(***************************************************************************)
(* Claims about the transformers.                                          *)
(***************************************************************************)

IsStatOp == tf.op \in {"player_stat", "player_advanced"}
InPlayerId == IF tf.op = "player_stat" THEN SafeInt(tf.stat_dict.PLAYER_ID, 0)
              ELSE SafeInt(tf.player.personId, 0)
InTeamId == IF tf.op = "player_stat" THEN SafeInt(tf.stat_dict.TEAM_ID, 0)
            ELSE tf.team_id

\* C6 as stated: every record either stat transformer emits has its
\* player_id among the valid players and its team_id among the valid teams,
\* and an input whose player id or team id is not valid yields a skip.
C6_FkSafetyBoth ==
    IsStatOp =>
        /\ ~tf.out.skip =>
              /\ tf.out.player_id \in tf.valid_player_ids
              /\ IF tf.op = "player_stat"
                 THEN tf.out.team_id \in tf.valid_team_ids
                 ELSE tf.out.team_id \in {I(t) : t \in tf.valid_team_ids}
        /\ (InPlayerId \notin tf.valid_player_ids
            \/ InTeamId \notin tf.valid_team_ids) => tf.out.skip

IsGameOp == tf.op \in {"game", "date_path"}
BothScores == tf.game.home_score # PyNone /\ tf.game.away_score # PyNone

\* C7: _transform_game_data gives status Final to every game whose
\* date-time is strictly before now and whose two scores are present,
\* whatever the provider's status; a game whose date-time is not before now
\* keeps the provider's mapped status, with or without scores.
C7_StatusSelfCorrection ==
    (IsGameOp /\ ~tf.out.skip) =>
        /\ (tf.out.game_datetime < tf.now /\ BothScores) =>
              tf.out.status = "Final"
        /\ ~(tf.out.game_datetime < tf.now) =>
              tf.out.status = MapGameStatus(tf.game.gameStatus)

C7_Witness ==
    /\ tf.op = "game"
    /\ ~tf.out.skip
    /\ tf.game.gameStatus = I(1)
    /\ BothScores
    /\ tf.out.game_datetime < tf.now
    /\ tf.out.status = "Final"

\* C8: on the date-sync path and on the schedule path the is_time_tbd flag
\* of the game row is true exactly when the row's UTC date-time has
\* time-of-day 00:00:00.
C8_TbdIffUtcMidnight ==
    (tf.op \in {"date_path", "schedule"} /\ ~tf.out.skip) =>
        (tf.out.is_time_tbd <=> TimeOfDay(tf.out.game_datetime) = 0)

(***************************************************************************)
(* The store.  Each table is a set of rows; the store keeps id unique in   *)
(* games and (game_id, player_id) unique in the two stats tables, and      *)
(* refuses a stats row whose game, player or team is not in its table.     *)
(* Every write statement is atomic.                                        *)
(***************************************************************************)
TeamRows == {[id |-> 10, code |-> "LAL"], [id |-> 20, code |-> "BOS"]}
EmptyDb == [teams |-> {}, players |-> {}, games |-> {}, stats |-> {}, adv |-> {}]

TeamIds(d) == {t.id : t \in d.teams}
GameIdsOf(d) == {g.id : g \in d.games}
SameKey(r, q) == r.game_id = q.game_id /\ r.player_id = q.player_id

\* insert into game_player_stats: ok is FALSE where the store raises.
InsertStat(d, row) ==
    IF /\ row.game_id \in GameIdsOf(d)
       /\ row.player_id \in d.players
       /\ row.team_id \in TeamIds(d)
       /\ \A q \in d.stats : ~SameKey(row, q)
    THEN [ok |-> TRUE, db |-> [d EXCEPT !.stats = @ \cup {row}]]
    ELSE [ok |-> FALSE, db |-> d]

\* upsert into game_player_advanced_stats on (game_id, player_id).
UpsertAdv(d, row) ==
    IF /\ row.game_id \in GameIdsOf(d)
       /\ row.player_id \in d.players
       /\ row.team_id \in {PyNone} \cup {I(t) : t \in TeamIds(d)}
    THEN [ok |-> TRUE,
          db |-> [d EXCEPT !.adv = {q \in @ : ~SameKey(row, q)} \cup {row}]]
    ELSE [ok |-> FALSE, db |-> d]

\* One statement with several rows: all rows or none.  A statement that
\* names the same key twice is refused.
DistinctKeys(rows) ==
    \A i, j \in 1..Len(rows) : SameKey(rows[i], rows[j]) => i = j

RECURSIVE RowByRowStats(_, _)
\* game_player_stats_service.py:425-432: the per-row inserts of the fallback.
RowByRowStats(d, rows) ==
    IF rows = <<>> THEN [db |-> d, synced |-> 0, failed |-> 0, attempts |-> <<>>]
    ELSE Value({Value({[db |-> rest.db,
                        synced |-> rest.synced + (IF one.ok THEN 1 ELSE 0),
                        failed |-> rest.failed + (IF one.ok THEN 0 ELSE 1),
                        attempts |-> <<one.ok>> \o rest.attempts]
                       : rest \in {RowByRowStats(one.db, Tail(rows))}})
                : one \in {InsertStat(d, Head(rows))}})

BulkInsertStats(d, rows) ==
    LET all == RowByRowStats(d, rows)
    IN IF all.synced = Len(rows) /\ DistinctKeys(rows)
       THEN [ok |-> TRUE, db |-> all.db]
       ELSE [ok |-> FALSE, db |-> d]

RECURSIVE RowByRowAdv(_, _)
\* game_player_advanced_stats_service.py:227-237: the per-row upserts.
RowByRowAdv(d, rows) ==
    IF rows = <<>> THEN [db |-> d, synced |-> 0]
    ELSE LET one == UpsertAdv(d, Head(rows))
             rest == RowByRowAdv(one.db, Tail(rows))
         IN [db |-> rest.db, synced |-> rest.synced + (IF one.ok THEN 1 ELSE 0)]

BulkUpsertAdv(d, rows) ==
    LET all == RowByRowAdv(d, rows)
    IN IF all.synced = Len(rows) /\ DistinctKeys(rows)
       THEN [ok |-> TRUE, db |-> all.db]
       ELSE [ok |-> FALSE, db |-> d]

NotSkipped(r) == ~r.skip

StatRow(r) == [game_id |-> r.game_id, player_id |-> r.player_id,
               team_id |-> r.team_id, min |-> r.min, pts |-> r.pts]
AdvRow(r) == [game_id |-> r.game_id, player_id |-> r.player_id,
              team_id |-> r.team_id, off_rating |-> r.off_rating]

\* What a sync operation hands back: the store it leaves and whether it raised.
Returned(d) == [db |-> d, raised |-> FALSE]
Raised(d) == [db |-> d, raised |-> TRUE]

\* The store's failures a run meets: the bulk games statement raises, the
\* single-row write of the games rows in `rows` raises, every store call of
\* sync_game_details for the games in `details` raises.
NoFaults == [bulk |-> FALSE, rows |-> {}, details |-> {}]

\* What a run of a sync operation did besides changing the store: the games
\* rows it built, the size of the batch it wrote, whether the bulk statement
\* raised, the outcome of each single-row write of the fallback, the two
\* counters, the ids of the games rows written, and the sync_game_details
\* calls it made with the number of them that raised; and the store's
\* failures it ran against.
NoTrace ==
    [faults |-> NoFaults, games_data |-> <<>>, batch |-> 0, bulk_raised |-> FALSE, attempts |-> <<>>,
     synced_count |-> 0, failed_count |-> 0, written |-> {},
     sync_player_stats |-> FALSE, is_past_date |-> FALSE,
     stats_calls |-> <<>>, stats_failed |-> 0]

Outcome(run) == [db |-> run.db, raised |-> run.raised]
Untraced(result) == [db |-> result.db, raised |-> result.raised, trace |-> NoTrace]
ReturnedRun(d, trace) == [db |-> d, raised |-> FALSE, trace |-> trace]
RaisedRun(d, trace) == [db |-> d, raised |-> TRUE, trace |-> trace]

NoGameInfo == [present |-> FALSE, home_score |-> PyNone, away_score |-> PyNone,
               status |-> ""]

\* game_player_stats_service.py:462-475: the games update from game_info.
UpdateGameInfo(d, game_id, game_info) ==
    [d EXCEPT !.games =
        {IF g.id # game_id THEN g
         ELSE [g EXCEPT
                 !.home_score = IF game_info.home_score # PyNone
                                THEN game_info.home_score ELSE @,
                 !.away_score = IF game_info.away_score # PyNone
                                THEN game_info.away_score ELSE @,
                 !.status = IF game_info.status # "" THEN game_info.status ELSE @]
         : g \in @}]

\* game_player_stats_service.py:399-407: delete the game's stats rows.
DeleteGameStatsM(d, game_id) == d
DeleteGameStats(d, game_id) ==
    [d EXCEPT !.stats = {q \in @ : q.game_id # game_id}]

\* game_player_stats_service.py:320-492: sync_game_details.  fetched is what
\* _fetch_player_stats_from_api returned, or the list the caller passed in
\* (then with no game_info); fetched.none is the fetch's (None, None).
\* insert_raises: the store refuses every insert into game_player_stats
\* (lines 416 and 426) after it served the delete.
SyncGameDetailsStore(d, game_id, fetched, insert_raises) ==
    LET transformed == [i \in 1..Len(fetched.list) |->
                          TransformPlayerStat(fetched.list[i], game_id,
                                              d.players, TeamIds(d))]
        kept == SelectSeq(transformed, NotSkipped)
        stats_data == [i \in 1..Len(kept) |-> StatRow(kept[i])]
        deleted == DeleteGameStats(d, game_id)
        bulk == IF insert_raises THEN [ok |-> FALSE, db |-> deleted]
                ELSE BulkInsertStats(deleted, stats_data)
        rows == IF insert_raises
                THEN [db |-> deleted, synced |-> 0, failed |-> Len(stats_data),
                      attempts |-> [i \in 1..Len(stats_data) |-> FALSE]]
                ELSE RowByRowStats(deleted, stats_data)
        written == IF bulk.ok THEN bulk.db ELSE rows.db
        trace == [NoTrace EXCEPT
                    !.batch = Len(stats_data),
                    !.bulk_raised = ~bulk.ok,
                    !.attempts = IF bulk.ok THEN <<>> ELSE rows.attempts,
                    !.synced_count = IF bulk.ok THEN Len(stats_data) ELSE rows.synced,
                    !.failed_count = IF bulk.ok THEN 0 ELSE rows.failed]
    IN IF fetched.none THEN ReturnedRun(d, NoTrace)
       ELSE IF Len(fetched.list) = 0 THEN ReturnedRun(d, NoTrace)
       ELSE IF Len(stats_data) = 0 THEN ReturnedRun(d, NoTrace)
       ELSE IF ~bulk.ok /\ rows.synced = 0 THEN RaisedRun(deleted, trace)
       ELSE IF fetched.game_info.present
            THEN ReturnedRun(UpdateGameInfo(written, game_id, fetched.game_info),
                             trace)
            ELSE ReturnedRun(written, trace)

SyncGameDetailsRun(d, game_id, fetched) == SyncGameDetailsStore(d, game_id, fetched, FALSE)

SyncGameDetails(d, game_id, fetched) == Value({Outcome(run) : run \in {SyncGameDetailsRun(d, game_id, fetched)}})

\* game_player_advanced_stats_service.py:125-278:
\* sync_game_player_advanced_stats.  box_score is what
\* _fetch_game_advanced_stats returned; box_score.none is its None.
SyncGamePlayerAdvancedStats(d, game_id, box_score) ==
    LET home_team_id == SafeInt(box_score.homeTeamId, 0)
        away_team_id == SafeInt(box_score.awayTeamId, 0)
        home == [i \in 1..Len(box_score.home_players) |->
                   TransformPlayerAdvancedStats(box_score.home_players[i], game_id,
                                                home_team_id, d.players, TeamIds(d))]
        away == [i \in 1..Len(box_score.away_players) |->
                   TransformPlayerAdvancedStats(box_score.away_players[i], game_id,
                                                away_team_id, d.players, TeamIds(d))]
        kept == SelectSeq(home \o away, NotSkipped)
        stats_data == [i \in 1..Len(kept) |-> AdvRow(kept[i])]
        bulk == BulkUpsertAdv(d, stats_data)
        rows == RowByRowAdv(d, stats_data)
    IN IF box_score.none THEN Returned(d)
       ELSE IF Len(stats_data) = 0 THEN Returned(d)
       ELSE IF bulk.ok THEN Returned(bulk.db)
       ELSE IF rows.synced > 0 THEN Returned(rows.db)
       ELSE Raised(d)

\* game_service.py:18-51: _build_team_map, tricode -> team id.
BuildTeamMap(d) ==
    [c \in {t.code : t \in d.teams} |-> (CHOOSE t \in d.teams : t.code = c).id]

\* The columns of a games row.  A score key the code leaves out is PyNone.
GameRow(r) == [id |-> r.id, game_datetime |-> r.game_datetime,
               is_time_tbd |-> r.is_time_tbd, status |-> r.status,
               is_playoff |-> r.is_playoff,
               home_team_id |-> r.home_team_id, away_team_id |-> r.away_team_id,
               home_score |-> r.home_score, away_score |-> r.away_score]

\* upsert into games on id: a column the statement does not name keeps the
\* value the row had.
UpsertGame(d, row) ==
    LET old == {g \in d.games : g.id = row.id}
        kept(col) == IF row[col] # PyNone \/ old = {} THEN row[col]
                     ELSE (CHOOSE g \in old : TRUE)[col]
        new == [row EXCEPT !.home_score = kept("home_score"),
                           !.away_score = kept("away_score")]
    IN [d EXCEPT !.games = (@ \ old) \cup {new}]

RECURSIVE UpsertGames(_, _)
\* game_service.py:787-807: the games rows written, bulk or one by one.
UpsertGames(d, rows) ==
    IF rows = <<>> THEN d ELSE UpsertGames(UpsertGame(d, Head(rows)), Tail(rows))

\* The games rows one at a time, up to the first write that raises.
RECURSIVE RowByRowGamesM(_, _, _)
RowByRowGamesM(d, rows, refused) ==
    IF rows = <<>>
    THEN [db |-> d, synced |-> 0, failed |-> 0, attempts |-> <<>>, written |-> {}]
    ELSE IF Head(rows).id \in refused
    THEN [db |-> d, synced |-> 0, failed |-> 1, attempts |-> <<FALSE>>, written |-> {}]
    ELSE Value({[db |-> rest.db, synced |-> rest.synced + 1, failed |-> rest.failed,
                 attempts |-> <<TRUE>> \o rest.attempts,
                 written |-> rest.written \cup {Head(rows).id}]
                : rest \in {RowByRowGamesM(UpsertGame(d, Head(rows)), Tail(rows),
                                            refused)}})

RECURSIVE RowByRowGames(_, _, _)
\* game_service.py:800-807: the single-row upserts of the fallback; the
\* store raises for the rows whose id is in `refused`.
RowByRowGames(d, rows, refused) ==
    IF rows = <<>>
    THEN [db |-> d, synced |-> 0, failed |-> 0, attempts |-> <<>>, written |-> {}]
    ELSE LET ok == Head(rows).id \notin refused
         IN Value({[db |-> rest.db,
                    synced |-> rest.synced + (IF ok THEN 1 ELSE 0),
                    failed |-> rest.failed + (IF ok THEN 0 ELSE 1),
                    attempts |-> <<ok>> \o rest.attempts,
                    written |-> rest.written \cup (IF ok THEN {Head(rows).id} ELSE {})]
                   : rest \in {RowByRowGames(IF ok THEN UpsertGame(d, Head(rows)) ELSE d,
                                              Tail(rows), refused)}})

\* game_service.py:787-807: the write step of sync_games_for_date.  The bulk
\* statement raises when the store is failing or refuses one of its rows.
WriteGames(d, rows, faults) ==
    LET bulk_raised == faults.bulk \/ \E i \in 1..Len(rows) : rows[i].id \in faults.rows
    IN IF bulk_raised
       THEN Value({[db |-> each.db, bulk_raised |-> TRUE, attempts |-> each.attempts,
                    synced_count |-> each.synced, failed_count |-> each.failed,
                    written |-> each.written]
                   : each \in {RowByRowGames(d, rows, faults.rows)}})
       ELSE [db |-> UpsertGames(d, rows), bulk_raised |-> FALSE, attempts |-> <<>>,
             synced_count |-> Len(rows), failed_count |-> 0,
             written |-> {rows[i].id : i \in 1..Len(rows)}]

\* game_service.py:399-609: _fetch_single_game_by_id.  box is the
\* BoxScoreTraditionalV3 answer (box.none: the fetch gave None or no data),
\* summary the BoxScoreSummaryV3 answer of the score fallback.
FetchSingleGameById(d, game_id, team_map, box, summary, now_utc) ==
    LET home_api == SafeInt(box.homeTeamId, 0)
        away_api == SafeInt(box.awayTeamId, 0)
        home_rows == {t \in d.teams : t.id = home_api}
        away_rows == {t \in d.teams : t.id = away_api}
        home_team_id == TeamMapGet(team_map, (CHOOSE t \in home_rows : TRUE).code)
        away_team_id == TeamMapGet(team_map, (CHOOSE t \in away_rows : TRUE).code)
        from_info == IF ~box.game_info THEN TimeStr("empty", 0)
                     ELSE IF box.gameTimeUTC.f # "empty" THEN box.gameTimeUTC
                     ELSE IF box.gameDateEst.f = "date"
                          THEN TimeStr("isoZ", box.gameDateEst.t)
                          ELSE TimeStr("empty", 0)
        existing == {g \in d.games : g.id = game_id}
        game_time_utc ==
            IF from_info.f # "empty" THEN from_info
            ELSE IF existing # {}
                 THEN TimeStr("isoOff", (CHOOSE g \in existing : TRUE).game_datetime)
                 ELSE TimeStr("isoOff", now_utc)
        parsed == ParseGameTime(game_time_utc)
        status0 == IF box.game_info
                   THEN MapGameStatus(IF box.gameStatus = PyNone THEN I(3)
                                      ELSE box.gameStatus)
                   ELSE "Final"
        fallback == (box.home_points = PyNone \/ box.away_points = PyNone)
                    /\ ~summary.none
        home_score == IF fallback /\ summary.home_score # PyNone
                      THEN summary.home_score ELSE box.home_points
        away_score == IF fallback /\ summary.away_score # PyNone
                      THEN summary.away_score ELSE box.away_points
        status == IF fallback /\ home_score # PyNone /\ status0 = "Scheduled"
                  THEN "Live" ELSE status0
    IN IF box.none THEN Skip
       ELSE IF home_api = 0 \/ away_api = 0 THEN Skip
       ELSE IF home_rows = {} \/ away_rows = {} THEN Skip
       ELSE IF home_team_id = 0 \/ away_team_id = 0 THEN Skip
       ELSE IF ~parsed.ok THEN Skip
       ELSE [skip |-> FALSE, id |-> game_id,
             game_datetime |-> parsed.dt, is_time_tbd |-> parsed.is_time_tbd,
             status |-> status, is_playoff |-> (game_id.type = "01"),
             home_team_id |-> home_team_id, away_team_id |-> away_team_id,
             home_score |-> home_score, away_score |-> away_score]

\* game_service.py:612-698: sync_single_game.
SyncSingleGameRun(d, game_id, box, summary, fetched, now_utc, faults) ==
    LET tricode_to_id == BuildTeamMap(d)
        game_data == FetchSingleGameById(d, game_id, tricode_to_id, box,
                                         summary, now_utc)
        upsert_raised == faults.bulk \/ game_id \in faults.rows
        upserted == UpsertGame(d, GameRow(game_data))
        details == IF game_id \in faults.details THEN Raised(upserted)
                   ELSE SyncGameDetails(upserted, game_id, fetched)
        trace == [NoTrace EXCEPT !.faults = faults,
                                 !.games_data = <<GameRow(game_data)>>,
                                 !.batch = 1, !.bulk_raised = upsert_raised]
    IN IF DOMAIN tricode_to_id = {} THEN ReturnedRun(d, NoTrace)
       ELSE IF game_data.skip THEN RaisedRun(d, NoTrace)
       ELSE IF upsert_raised
            THEN RaisedRun(d, [trace EXCEPT !.failed_count = 1])
       ELSE [db |-> details.db, raised |-> details.raised,
             trace |-> [trace EXCEPT !.synced_count = 1, !.written = {game_id},
                                     !.stats_calls = <<game_id>>,
                                     !.stats_failed = IF details.raised THEN 1 ELSE 0]]

SyncSingleGame(d, game_id, box, summary, fetched, now_utc) == Value({Outcome(run) : run \in {SyncSingleGameRun(d, game_id, box, summary, fetched, now_utc, NoFaults)}})

RECURSIVE Refetched(_, _, _, _, _, _, _)
\* game_service.py:766-781: the re-fetch loop; a game whose re-fetch gives
\* nothing keeps the row the transformer made.
Refetched(games_data, ids, d, team_map, box, summary, now_utc) ==
    IF ids = <<>> THEN games_data
    ELSE LET refetched_data == FetchSingleGameById(d, Head(ids), team_map, box,
                                                   summary, now_utc)
             hits == {i \in 1..Len(games_data) : games_data[i].id = Head(ids)}
             first == CHOOSE i \in hits : \A j \in hits : i <= j
             replaced == IF refetched_data.skip \/ hits = {} THEN games_data
                         ELSE [games_data EXCEPT ![first] = GameRow(refetched_data)]
         IN Refetched(replaced, Tail(ids), d, team_map, box, summary, now_utc)

\* game_service.py:849: should_sync.
ShouldSyncM(game_status, is_past_date) == game_status = "Final"
ShouldSync(game_status, is_past_date) == game_status = "Final" \/ is_past_date

RECURSIVE StatsLoop(_, _, _, _, _)
\* game_service.py:841-864: sync_game_details for each game that is Final or
\* of a past date; what it raises is caught.
StatsLoop(d, games_data, is_past_date, fetched, faults) ==
    IF games_data = <<>> THEN [db |-> d, calls |-> <<>>, failed |-> 0]
    ELSE LET g == Head(games_data)
             should_sync == ShouldSync(g.status, is_past_date)
         IN Value({Value({[db |-> rest.db,
                           calls |-> (IF should_sync THEN <<g.id>> ELSE <<>>)
                                     \o rest.calls,
                           failed |-> rest.failed
                                      + (IF should_sync /\ call.raised THEN 1 ELSE 0)]
                          : rest \in {StatsLoop(IF should_sync THEN call.db ELSE d,
                                                 Tail(games_data), is_past_date,
                                                 fetched, faults)}})
                   : call \in {IF g.id \in faults.details THEN Raised(d)
                                ELSE SyncGameDetails(d, g.id, fetched)}})

StatsForGames(d, games_data, is_past_date, fetched) == StatsLoop(d, games_data, is_past_date, fetched, NoFaults).db

NeedsDeepSync(r) == r.needs_refetch \/ r.status = "Live"

\* game_service.py:701-884: sync_games_for_date.  games is what
\* _fetch_games_for_date returned (games.none: its None); date is the day
\* of date_str.
SyncGamesForDateRun(d, date, sync_player_stats, games, box, summary, fetched, now_utc, faults) ==
    LET tricode_to_id == BuildTeamMap(d)
        transformed == [i \in 1..Len(games.list) |->
                          TransformGameData(games.list[i], tricode_to_id, now_utc)]
        kept == SelectSeq(transformed, NotSkipped)
        games_data0 == [i \in 1..Len(kept) |-> GameRow(kept[i])]
        marked == SelectSeq(kept, NeedsDeepSync)
        games_needing_refetch == [i \in 1..Len(marked) |-> marked[i].id]
        games_data == Refetched(games_data0, games_needing_refetch, d,
                                tricode_to_id, box, summary, now_utc)
        write == WriteGames(d, games_data, faults)
        is_past_date == date < DayOf(now_utc)
        stats == StatsLoop(write.db, games_data, is_past_date, fetched, faults)
        trace == [NoTrace EXCEPT
                    !.faults = faults,
                    !.games_data = games_data, !.batch = Len(games_data),
                    !.bulk_raised = write.bulk_raised, !.attempts = write.attempts,
                    !.synced_count = write.synced_count,
                    !.failed_count = write.failed_count,
                    !.written = write.written,
                    !.sync_player_stats = sync_player_stats,
                    !.is_past_date = is_past_date]
    IN IF DOMAIN tricode_to_id = {} THEN ReturnedRun(d, NoTrace)
       ELSE IF games.none THEN RaisedRun(d, NoTrace)
       ELSE IF Len(games.list) = 0 THEN ReturnedRun(d, NoTrace)
       ELSE IF Len(games_data0) = 0 THEN ReturnedRun(d, NoTrace)
       ELSE IF sync_player_stats /\ write.synced_count > 0
            THEN ReturnedRun(stats.db, [trace EXCEPT !.stats_calls = stats.calls,
                                                     !.stats_failed = stats.failed])
            ELSE ReturnedRun(write.db, trace)

SyncGamesForDate(d, date, sync_player_stats, games, box, summary, fetched, now_utc) == Value({Outcome(run) : run \in {SyncGamesForDateRun(d, date, sync_player_stats, games, box, summary, fetched, now_utc, NoFaults)}})

(***************************************************************************)
(* The sync operations as steps on the store.  The provider's answers are  *)
(* inputs of each step.                                                    *)
(***************************************************************************)
MaxSyncs == 2
SyncNow == At(MaxDay, 12 * Hour)

Sd(p, t, pts) ==
    [PLAYER_ID |-> I(p), TEAM_ID |-> I(t),
     statistics |-> [present |-> TRUE, minutes |-> BadStr, points |-> I(pts)]]
StatLists ==
    {<<>>, <<Sd(1, 10, 7)>>, <<Sd(1, 10, 7), Sd(2, 20, 9)>>,
     <<Sd(1, 10, 7), Sd(1, 10, 9)>>, <<Sd(3, 10, 7)>>,
     <<Sd(1, 30, 7), Sd(2, 20, 9)>>}
FinalInfo == [present |-> TRUE, home_score |-> I(101), away_score |-> I(99),
              status |-> "Final"]
FetchedNone == [none |-> TRUE, list |-> <<>>, game_info |-> NoGameInfo]
\* game_player_stats_service.py:102-106: the box score's game_info when the
\* team statistics carry no points.
FinalInfoNoPoints == [FinalInfo EXCEPT !.home_score = PyNone, !.away_score = PyNone]
DetailFetches ==
    {FetchedNone}
    \cup [none : {FALSE}, list : StatLists, game_info : {NoGameInfo}]
    \cup [none : {FALSE}, list : StatLists \ {<<>>}, game_info : {FinalInfo}]
    \cup {[none |-> FALSE, list |-> <<Sd(1, 10, 7)>>, game_info |-> FinalInfoNoPoints]}
NestedFetches ==
    {FetchedNone,
     [none |-> FALSE, list |-> <<Sd(1, 10, 7), Sd(2, 20, 9)>>,
      game_info |-> FinalInfo]}

Ap(p) == [personId |-> I(p),
          statistics |-> [present |-> TRUE, offensiveRating |-> I(112)]]
AdvBox(h, a, hp, ap) ==
    [none |-> FALSE, homeTeamId |-> h, awayTeamId |-> a,
     home_players |-> hp, away_players |-> ap]
AdvBoxes ==
    {[none |-> TRUE, homeTeamId |-> PyNone, awayTeamId |-> PyNone,
      home_players |-> <<>>, away_players |-> <<>>],
     AdvBox(I(10), I(20), <<Ap(1)>>, <<Ap(2)>>),
     AdvBox(I(30), I(20), <<Ap(1)>>, <<Ap(1)>>),
     AdvBox(I(10), I(20), <<Ap(3)>>, <<>>)}

Row(gid, day, st, txt, h, hs, as) ==
    [GAME_ID |-> gid, GAME_DATE_EST |-> TimeStr("iso", At(day, 0)),
     GAME_STATUS_ID |-> st, GAME_STATUS_TEXT |-> txt,
     home_tricode |-> h, away_tricode |-> "BOS",
     home_score |-> hs, away_score |-> as]
At7pm == [pm |-> TRUE, ok |-> TRUE, tod |-> 19 * Hour]
NoTime == [pm |-> FALSE, ok |-> FALSE, tod |-> 0]
G1 == GameId("00", 1)
G2 == GameId("01", 2)
\* The scoreboards the provider may return for a day.
Scoreboards(day) ==
    {<<>>,
     <<Row(G1, day, I(1), At7pm, "LAL", PyNone, PyNone)>>,
     <<Row(G1, day, I(3), NoTime, "LAL", I(101), I(99))>>,
     <<Row(G1, day, I(1), At7pm, "LAL", I(101), I(99))>>,
     <<Row(G1, day, I(2), NoTime, "LAL", I(55), I(50))>>,
     <<Row(G1, day, I(3), NoTime, "LAL", I(101), I(99)),
       Row(G2, day, I(1), At7pm, "LAL", PyNone, PyNone)>>,
     <<Row(G2, day, I(3), NoTime, "XXX", I(101), I(99))>>,
     <<Row(G1, day, I(3), NoTime, "LAL", PyNone, PyNone)>>}

\* What _fetch_games_for_date may return for a day: None or the game dicts.
FetchedGames(day) ==
    {[none |-> TRUE, list |-> <<>>]}
    \cup {[none |-> FALSE,
           list |-> [i \in 1..Len(sb) |-> ScoreboardGame(sb[i], SyncNow)]]
          : sb \in Scoreboards(day)}

BoxNone == [none |-> TRUE, homeTeamId |-> PyNone, awayTeamId |-> PyNone,
            game_info |-> FALSE, gameTimeUTC |-> TimeStr("empty", 0),
            gameDateEst |-> TimeStr("empty", 0), gameStatus |-> PyNone,
            home_points |-> PyNone, away_points |-> PyNone]
BoxFinal == [BoxNone EXCEPT !.none = FALSE, !.homeTeamId = I(10),
                            !.awayTeamId = I(20), !.game_info = TRUE,
                            !.gameTimeUTC = TimeStr("isoZ", At(2, 1)),
                            !.gameStatus = I(3), !.home_points = I(101),
                            !.away_points = I(99)]
BoxEarly == [BoxNone EXCEPT !.none = FALSE, !.homeTeamId = I(10),
                            !.awayTeamId = I(20), !.game_info = TRUE,
                            !.gameDateEst = TimeStr("date", At(2, 0)),
                            !.gameStatus = I(1)]
SummaryNone == [none |-> TRUE, home_score |-> PyNone, away_score |-> PyNone]
SummaryLive == [none |-> FALSE, home_score |-> I(55), away_score |-> I(50)]
\* The answers of BoxScoreTraditionalV3 and BoxScoreSummaryV3 to one game.
BoxAnswers == {<<BoxNone, SummaryNone>>, <<BoxFinal, SummaryNone>>,
               <<BoxEarly, SummaryNone>>, <<BoxEarly, SummaryLive>>}

IdleSo == [op |-> "idle", game_id |-> NoGameId, date |-> 0,
           fetch_none |-> FALSE, raised |-> FALSE, fetched |-> FetchedNone,
           players |-> {}, teams |-> {}, trace |-> NoTrace]

\* A store an earlier sync_games_for_date left: game G1, Final, no stats yet.
SeededDb ==
    UpsertGames([EmptyDb EXCEPT !.teams = TeamRows, !.players = {1}],
                <<GameRow(TransformGameData(
                     ScoreboardGame(Row(G1, 1, I(3), NoTime, "LAL", I(101), I(99)),
                                    SyncNow),
                     BuildTeamMap([EmptyDb EXCEPT !.teams = TeamRows]), SyncNow))>>)

InitSync ==
    /\ db \in {EmptyDb, [EmptyDb EXCEPT !.teams = TeamRows, !.players = {1}],
                SeededDb}
    /\ so = IdleSo
    /\ nsync = 0

\* What the step records: the operation, its key, whether its fetch gave
\* None, whether it raised, and the reference tables it ran against.
Ran(op, game_id, date, fetch_none, fetched, result) ==
    /\ db' = result.db
    /\ so' = [op |-> op, game_id |-> game_id, date |-> date,
              fetch_none |-> fetch_none, raised |-> result.raised,
              fetched |-> fetched, players |-> db.players, teams |-> db.teams,
              trace |-> result.trace]
    /\ nsync' = nsync + 1

\* sync-teams and sync-players, as far as the operations here see them.
TeamsSynced ==
    /\ db.teams # TeamRows
    /\ db' = [db EXCEPT !.teams = TeamRows]
    /\ UNCHANGED <<so, nsync>>
    /\ UNCHANGED notSync

PlayerSynced ==
    /\ \E p \in {1, 2} \ db.players : db' = [db EXCEPT !.players = @ \cup {p}]
    /\ UNCHANGED <<so, nsync>>
    /\ UNCHANGED notSync

DoSyncGameDetails ==
    /\ nsync < MaxSyncs
    /\ \E g \in GameIds, f \in DetailFetches :
          Ran("details", g, 0, f.none, f, SyncGameDetailsRun(db, g, f))
    /\ UNCHANGED notSync

DoSyncGamePlayerAdvancedStats ==
    /\ nsync < MaxSyncs
    /\ \E g \in GameIds, b \in AdvBoxes :
          Ran("advanced", g, 0, b.none, FetchedNone,
              Untraced(SyncGamePlayerAdvancedStats(db, g, b)))
    /\ UNCHANGED notSync

DoSyncSingleGame ==
    /\ nsync < MaxSyncs
    /\ \E g \in GameIds, ba \in BoxAnswers, f \in NestedFetches :
          Ran("single_game", g, 0, db.teams # {} /\ ba[1].none, FetchedNone,
              SyncSingleGameRun(db, g, ba[1], ba[2], f, SyncNow, NoFaults))
    /\ UNCHANGED notSync

DoSyncGamesForDate ==
    /\ nsync < MaxSyncs
    /\ \E day \in GameDays, sync_player_stats \in BOOLEAN,
          ba \in BoxAnswers, f \in NestedFetches :
       \E games \in FetchedGames(day) :
          Ran("games_for_date", NoGameId, day, db.teams # {} /\ games.none,
              FetchedNone,
              SyncGamesForDateRun(db, day, sync_player_stats, games, ba[1],
                                  ba[2], f, SyncNow, NoFaults))
    /\ UNCHANGED notSync

\* The failures of the store in the specification with an unreliable store.
FaultSets ==
    { [bulk |-> TRUE, rows |-> {}, details |-> {}],
      [bulk |-> TRUE, rows |-> {G1}, details |-> {}],
      [bulk |-> TRUE, rows |-> {G2}, details |-> {}],
      [bulk |-> TRUE, rows |-> {G1, G2}, details |-> {}],
      [bulk |-> FALSE, rows |-> {}, details |-> {G1}] }

\* The number of operations run against the failing store.
MaxFaultySyncs == 1

DoSyncSingleGameFaulty ==
    /\ nsync < MaxFaultySyncs
    /\ \E g \in GameIds, ba \in BoxAnswers, f \in NestedFetches, faults \in FaultSets :
          Ran("single_game", g, 0, db.teams # {} /\ ba[1].none, FetchedNone,
              SyncSingleGameRun(db, g, ba[1], ba[2], f, SyncNow, faults))
    /\ UNCHANGED notSync

DoSyncGamesForDateFaulty ==
    /\ nsync < MaxFaultySyncs
    /\ \E day \in GameDays, sync_player_stats \in BOOLEAN,
          ba \in BoxAnswers, f \in NestedFetches, faults \in FaultSets :
       \E games \in FetchedGames(day) :
          Ran("games_for_date", NoGameId, day, db.teams # {} /\ games.none,
              FetchedNone,
              SyncGamesForDateRun(db, day, sync_player_stats, games, ba[1],
                                  ba[2], f, SyncNow, faults))
    /\ UNCHANGED notSync

\* sync_game_details against a store that refuses the inserts.
DoSyncGameDetailsFaulty ==
    /\ nsync < MaxSyncs
    /\ \E g \in GameIds, f \in DetailFetches :
          Ran("details", g, 0, f.none, f, SyncGameDetailsStore(db, g, f, TRUE))
    /\ UNCHANGED notSync

NextSyncFaults ==
    \/ TeamsSynced
    \/ PlayerSynced
    \/ DoSyncGameDetails
    \/ DoSyncGameDetailsFaulty
    \/ DoSyncSingleGameFaulty
    \/ DoSyncGamesForDateFaulty

NextSync ==
    \/ TeamsSynced
    \/ PlayerSynced
    \/ DoSyncGameDetails
    \/ DoSyncGamePlayerAdvancedStats
    \/ DoSyncSingleGame
    \/ DoSyncGamesForDate

(***************************************************************************)
(* Claims about the sync operations.                                       *)
(***************************************************************************)

StatsOf(d, game_id) == {q \in d.stats : q.game_id = game_id}
OneRowPerKey(rows) == \A q, r \in rows : SameKey(q, r) => q = r

\* A sync_game_details run that repeats the run before it: same game, same
\* provider data, and players and teams as they were at that run.
RepeatsDetails ==
    /\ so.op = "details"
    /\ so'.op = "details"
    /\ nsync' = nsync + 1
    /\ so'.game_id = so.game_id
    /\ so'.fetched = so.fetched
    /\ so.players = db.players
    /\ so.teams = db.teams

\* C4: a second run of sync_game_details for the same game, with identical
\* provider data and unchanged players and teams, leaves the game's
\* game_player_stats rows exactly as the first run left them, one row per
\* (game_id, player_id), and ends as the first run ended.
C4_DetailsIdempotent ==
    [][RepeatsDetails =>
          /\ StatsOf(db', so'.game_id) = StatsOf(db, so.game_id)
          /\ OneRowPerKey(StatsOf(db', so'.game_id))
          /\ so'.raised = so.raised]_vars

C4_Witness ==
    /\ so.op = "details"
    /\ nsync >= 2
    /\ ~so.raised
    /\ Cardinality(StatsOf(db, so.game_id)) = 2
    /\ so.fetched.list = <<Sd(1, 10, 7), Sd(2, 20, 9)>>

\* C9: a sync operation whose fetch gave None returns without raising and
\* leaves the store as it was; for sync_games_for_date, sync_single_game,
\* sync_game_details and sync_game_player_advanced_stats.
C9_FetchNoneSkips ==
    [][(nsync' = nsync + 1 /\ so'.fetch_none) =>
          (~so'.raised /\ db' = db)]_vars

(***************************************************************************)
(* Claims about the write step and the per-game stat syncs, checked under  *)
(* SpecSyncFaults, and about the games rows written, checked under         *)
(* SpecSync.                                                               *)
(***************************************************************************)

Count(seq, v) == Cardinality({i \in 1..Len(seq) : seq[i] = v})

IdsOf(games_data) == {games_data[i].id : i \in 1..Len(games_data)}

\* C16: when the bulk write of sync_games_for_date or sync_game_details
\* raises, every row of the batch is written individually: there is one
\* single-row write per row, a write that raises does not stop the writes
\* after it, and the rows written plus the rows failed are the batch.
C16_FallbackTriesEveryRow ==
    (so.op \in {"games_for_date", "details"} /\ so.trace.bulk_raised) =>
        /\ Len(so.trace.attempts) = so.trace.batch
        /\ so.trace.synced_count = Count(so.trace.attempts, TRUE)
        /\ so.trace.failed_count = Count(so.trace.attempts, FALSE)
        /\ so.trace.synced_count + so.trace.failed_count = so.trace.batch
        /\ so.op = "games_for_date" =>
              so.trace.written = IdsOf(so.trace.games_data) \ so.trace.faults.rows

\* The bulk upsert of two games rows raised, the single-row write of the
\* first row raised too, and the second row was written.
C16_Witness ==
    /\ so.op = "games_for_date"
    /\ so.trace.bulk_raised
    /\ so.trace.batch = 2
    /\ so.trace.attempts = <<FALSE, TRUE>>
    /\ so.trace.synced_count = 1
    /\ so.trace.failed_count = 1
    /\ so.trace.games_data[2].id \in GameIdsOf(db)

\* C17: every games row with status Final carries both scores, whether the
\* row comes from _transform_game_data, from _fetch_single_game_by_id or
\* from the games update at the end of sync_game_details.
C17_FinalHasScores ==
    \A g \in db.games :
        g.status = "Final" => (g.home_score # PyNone /\ g.away_score # PyNone)

\* C18: after sync_games_for_date returns, no games row it wrote has a
\* date-time in the past together with the status Scheduled.
C18_NoPastScheduled ==
    (so.op = "games_for_date" /\ ~so.raised) =>
        \A i \in 1..Len(so.trace.games_data) :
            ~(/\ so.trace.games_data[i].game_datetime < SyncNow
              /\ so.trace.games_data[i].status = "Scheduled")

\* C19: sync_games_for_date and sync_single_game call sync_game_details
\* only for a game whose games row was written in that run.
C19_StatsAfterGameWritten ==
    so.op \in {"games_for_date", "single_game"} =>
        \A j \in 1..Len(so.trace.stats_calls) :
            so.trace.stats_calls[j] \in so.trace.written

C26_ErrorKeepsOldStats ==
    [][(so'.op = "details" /\ nsync' = nsync + 1 /\ so'.raised) =>
          StatsOf(db, so'.game_id) \subseteq StatsOf(db', so'.game_id)]_vars

(***************************************************************************)
(* check-data/backfill_data.py: the checkpointed backfill.  The script's   *)
(* clock is SyncNow; its season runs from day 1 to today, Tokyo time.      *)
(***************************************************************************)
MaxRuns == 2
SaveEvery == 10

TokyoOffset == 9 * Hour
\* backfill_data.py:65-66: SEASON_START .. TODAY.
BackfillDays == 1..DayOf(SyncNow + TokyoOffset)
\* backfill_data.py:275: today_start, midnight in Tokyo.
TodayStart == At(DayOf(SyncNow + TokyoOffset), 0) - TokyoOffset

\* backfill_data.py:117-123: a fresh BackfillProgress.
EmptyProgress ==
    [completed_dates |-> {}, completed_game_stats |-> {},
     completed_advanced_stats |-> {}, phase1_complete |-> FALSE,
     phase2_complete |-> FALSE]
NoCheckpoint == [exists |-> FALSE, data |-> EmptyProgress]

\* backfill_data.py:126-141: load.
Load(file) == IF file.exists THEN file.data ELSE EmptyProgress
\* backfill_data.py:143-156: save.
Save(progress) == [exists |-> TRUE, data |-> progress]

RECURSIVE Sorted(_)
\* sorted(set(...)) of days.
Sorted(days) ==
    IF days = {} THEN <<>>
    ELSE LET first == CHOOSE x \in days : \A y \in days : x <= y
         IN <<first>> \o Sorted(days \ {first})

RECURSIVE ByDatetime(_)
\* .order("game_datetime") of games rows, as their ids.
ByDatetime(games) ==
    IF games = {} THEN <<>>
    ELSE LET first == CHOOSE g \in games :
                         \A h \in games : g.game_datetime <= h.game_datetime
         IN <<first.id>> \o ByDatetime(games \ {first})

\* backfill_data.py:200-214: get_dates_needing_sync.
GetDatesNeedingSync(progress) ==
    Sorted({day \in BackfillDays : day \notin progress.completed_dates})

\* backfill_data.py:242-264: get_games_needing_advanced_stats.
GetGamesNeedingAdvancedStats(d, progress) ==
    ByDatetime({g \in d.games :
                  /\ g.status = "Final"
                  /\ g.id \notin {q.game_id : q \in d.adv}
                  /\ g.id \notin progress.completed_advanced_stats})

\* backfill_data.py:267-285: get_orphaned_scheduled_games.
GetOrphanedScheduledGames(d) ==
    {g \in d.games : g.status = "Scheduled" /\ g.game_datetime < TodayStart}

\* backfill_data.py:300-302: the dates fix_orphaned_games syncs again.
OrphanedDates(orphaned_games) ==
    Sorted({DayOf(g.game_datetime) : g \in orphaned_games})

\* backfill_data.py:158-160: mark_date_complete.
MarkDateComplete(progress, day) ==
    [progress EXCEPT !.completed_dates = @ \cup {day}]
\* backfill_data.py:160: mark_date_complete saves after every mark.
SavesAfterDateMarkM(progress) ==
    Cardinality(progress.completed_dates) % SaveEvery = 0
SavesAfterDateMark(progress) == TRUE

\* backfill_data.py:168-171: mark_advanced_stats_complete.
MarkAdvancedStatsComplete(progress, game_id) ==
    [progress EXCEPT !.completed_advanced_stats = @ \cup {game_id}]
SavesAfterMark(progress) ==
    Cardinality(progress.completed_advanced_stats) % SaveEvery = 0

BfOff == [pc |-> "off", mode |-> "all", progress |-> EmptyProgress,
          loaded |-> EmptyProgress, dates |-> <<>>, games |-> <<>>]

InitBackfill ==
    /\ bf = BfOff
    /\ ckpt = NoCheckpoint
    /\ bflog = {}
    /\ nruns = 0

\* The scoreboard of a day in the backfill: day 1 has game G1, day 2 has
\* game G2, later days have no game; any fetch may give None.
GameOfDay(day) == IF day = 1 THEN G1 ELSE G2
BfFetchedGames(day) ==
    {[none |-> TRUE, list |-> <<>>]}
    \cup {[none |-> FALSE,
           list |-> [i \in 1..Len(sb) |-> ScoreboardGame(sb[i], SyncNow)]]
          : sb \in IF day > 2 THEN {<<>>}
                   ELSE {<<Row(GameOfDay(day), day, I(1), At7pm, "LAL", PyNone, PyNone)>>,
                         <<Row(GameOfDay(day), day, I(3), NoTime, "LAL", I(101), I(99))>>}}
BfBoxAnswers == {<<BoxNone, SummaryNone>>, <<BoxFinal, SummaryNone>>}
BfAdvBoxes == {b \in AdvBoxes : b.none \/ b.homeTeamId = I(10)}

\* backfill_data.py:600-601: main builds BackfillProgress, which loads.
BfStart ==
    /\ bf.pc = "off"
    /\ nruns < MaxRuns
    /\ \E mode \in {"phase1", "all"} :
          bf' = [BfOff EXCEPT !.pc = "phase1", !.mode = mode,
                              !.progress = Load(ckpt), !.loaded = Load(ckpt)]
    /\ bflog' = {}
    /\ nruns' = nruns + 1
    /\ UNCHANGED <<ckpt, db>>
    /\ UNCHANGED notBackfill

AfterPhase1(mode) == IF mode = "all" THEN "phase2" ELSE "off"

\* backfill_data.py:397-409: run_phase1 up to the first loop.
BfPhase1Enter ==
    /\ bf.pc = "phase1"
    /\ LET orphaned_games == GetOrphanedScheduledGames(db)
       IN bf' = IF bf.progress.phase1_complete
                THEN [bf EXCEPT !.pc = AfterPhase1(bf.mode)]
                ELSE IF orphaned_games # {}
                THEN [bf EXCEPT !.pc = "step0",
                                !.dates = OrphanedDates(orphaned_games)]
                ELSE [bf EXCEPT !.pc = "step1a",
                                !.dates = GetDatesNeedingSync(bf.progress)]
    /\ UNCHANGED <<ckpt, bflog, nruns, db>>
    /\ UNCHANGED notBackfill

\* backfill_data.py:306-327: one turn of the loop of fix_orphaned_games.
BfFixOrphaned ==
    /\ bf.pc = "step0"
    /\ bf.dates # <<>>
    /\ \E games \in BfFetchedGames(Head(bf.dates)), ba \in BfBoxAnswers,
          f \in NestedFetches :
          db' = SyncGamesForDate(db, Head(bf.dates), TRUE, games, ba[1], ba[2],
                                 f, SyncNow).db
    /\ bflog' = bflog \cup {[kind |-> "date", step |-> "0",
                            date |-> Head(bf.dates), game_id |-> NoGameId]}
    /\ bf' = [bf EXCEPT !.dates = Tail(@)]
    /\ UNCHANGED <<ckpt, nruns>>
    /\ UNCHANGED notBackfill

\* backfill_data.py:411-412: after Step 0, the dates of Step 1a.
BfStep0Done ==
    /\ bf.pc = "step0"
    /\ bf.dates = <<>>
    /\ bf' = [bf EXCEPT !.pc = "step1a", !.dates = GetDatesNeedingSync(bf.progress)]
    /\ UNCHANGED <<ckpt, bflog, nruns, db>>
    /\ UNCHANGED notBackfill

\* backfill_data.py:418-441: one turn of the loop of Step 1a.
BfSyncDate ==
    /\ bf.pc = "step1a"
    /\ bf.dates # <<>>
    /\ \E games \in BfFetchedGames(Head(bf.dates)), ba \in BfBoxAnswers,
          f \in NestedFetches :
          LET result == SyncGamesForDate(db, Head(bf.dates), TRUE, games, ba[1],
                                         ba[2], f, SyncNow)
              marked == MarkDateComplete(bf.progress, Head(bf.dates))
          IN /\ db' = result.db
             /\ bf' = [bf EXCEPT !.dates = Tail(@),
                                 !.progress = IF result.raised THEN @ ELSE marked]
             /\ ckpt' = IF ~result.raised /\ SavesAfterDateMark(marked)
                        THEN Save(marked) ELSE ckpt
    /\ bflog' = bflog \cup {[kind |-> "date", step |-> "1a",
                            date |-> Head(bf.dates), game_id |-> NoGameId]}
    /\ UNCHANGED nruns
    /\ UNCHANGED notBackfill

\* backfill_data.py:447-448: after Step 1a, the games of Step 1b.
BfStep1aDone ==
    /\ bf.pc = "step1a"
    /\ bf.dates = <<>>
    /\ bf' = [bf EXCEPT !.pc = "step1b",
                        !.games = GetGamesNeedingAdvancedStats(db, bf.progress)]
    /\ UNCHANGED <<ckpt, bflog, nruns, db>>
    /\ UNCHANGED notBackfill

\* backfill_data.py:454-475: one turn of the loop of Step 1b.
BfSyncAdvanced ==
    /\ bf.pc = "step1b"
    /\ bf.games # <<>>
    /\ \E b \in BfAdvBoxes :
          LET result == SyncGamePlayerAdvancedStats(db, Head(bf.games), b)
              marked == MarkAdvancedStatsComplete(bf.progress, Head(bf.games))
          IN /\ db' = result.db
             /\ bf' = [bf EXCEPT !.games = Tail(@),
                                 !.progress = IF result.raised THEN @ ELSE marked]
             /\ ckpt' = IF ~result.raised /\ SavesAfterMark(marked)
                        THEN Save(marked) ELSE ckpt
    /\ bflog' = bflog \cup {[kind |-> "adv", step |-> "1b", date |-> 0,
                            game_id |-> Head(bf.games)]}
    /\ UNCHANGED nruns
    /\ UNCHANGED notBackfill

\* backfill_data.py:481-483: the end of run_phase1.
BfPhase1Done ==
    /\ bf.pc = "step1b"
    /\ bf.games = <<>>
    /\ LET done == [bf.progress EXCEPT !.phase1_complete = TRUE]
       IN /\ bf' = [bf EXCEPT !.pc = AfterPhase1(bf.mode), !.progress = done]
          /\ ckpt' = Save(done)
    /\ UNCHANGED <<bflog, nruns, db>>
    /\ UNCHANGED notBackfill

\* backfill_data.py:486-529: run_phase2; ok is whether the four season
\* syncs all returned.  What they raise goes to main, which saves.
BfPhase2 ==
    /\ bf.pc = "phase2"
    /\ \E ok \in BOOLEAN :
          LET done == [bf.progress EXCEPT !.phase2_complete = TRUE]
          IN IF bf.progress.phase2_complete
             THEN bf' = [bf EXCEPT !.pc = "cleanup"] /\ ckpt' = ckpt
             ELSE IF ok
             THEN bf' = [bf EXCEPT !.pc = "cleanup", !.progress = done]
                  /\ ckpt' = Save(done)
             ELSE bf' = [bf EXCEPT !.pc = "off"] /\ ckpt' = Save(bf.progress)
    /\ UNCHANGED <<bflog, nruns, db>>
    /\ UNCHANGED notBackfill

\* backfill_data.py:548-550: run_all removes the checkpoint file.
BfCleanup ==
    /\ bf.pc = "cleanup"
    /\ bf' = [bf EXCEPT !.pc = "off"]
    /\ ckpt' = NoCheckpoint
    /\ UNCHANGED <<bflog, nruns, db>>
    /\ UNCHANGED notBackfill

\* KeyboardInterrupt anywhere in a run: progress.save() and sys.exit(0)
\* (backfill_data.py:321-324, 434-437, 469-472, 522-525, 612-615).
BfInterrupt ==
    /\ bf.pc \in {"phase1", "step0", "step1a", "step1b", "phase2", "cleanup"}
    /\ bf' = [bf EXCEPT !.pc = "off"]
    /\ ckpt' = Save(bf.progress)
    /\ UNCHANGED <<bflog, nruns, db>>
    /\ UNCHANGED notBackfill

NextBackfill ==
    \/ BfStart
    \/ BfPhase1Enter
    \/ BfFixOrphaned
    \/ BfStep0Done
    \/ BfSyncDate
    \/ BfStep1aDone
    \/ BfSyncAdvanced
    \/ BfPhase1Done
    \/ BfPhase2
    \/ BfCleanup
    \/ BfInterrupt

(***************************************************************************)
(* Claims about the backfill.                                              *)
(***************************************************************************)

\* C5: a restarted backfill syncs only units not marked complete in the
\* checkpoint it loaded: no date of completed_dates and no game of
\* completed_advanced_stats is synced again, and a phase flagged complete
\* makes no sync call.
C5_RestartSkipsCompleted ==
    /\ \A e \in bflog :
          /\ e.kind = "date" => e.date \notin bf.loaded.completed_dates
          /\ e.kind = "adv" => e.game_id \notin bf.loaded.completed_advanced_stats
    /\ bf.loaded.phase1_complete => bflog = {}

\* C27: phase1_complete is true, in memory or in the checkpoint file, only
\* when every date from the season start to today is in completed_dates, so
\* that a date whose sync raised is left for the next run of phase 1.
C27_Phase1CompleteMeansAllDates ==
    /\ bf.progress.phase1_complete =>
            BackfillDays \subseteq bf.progress.completed_dates
    /\ (ckpt.exists /\ ckpt.data.phase1_complete) =>
            BackfillDays \subseteq ckpt.data.completed_dates

AdvancedMarked ==
    bf'.progress.completed_advanced_stats # bf.progress.completed_advanced_stats

QuietHttp == [PROXY |-> "", base_session |-> "None", stats_session |-> "None"]

Init == InitWorker /\ sc = IdleCall /\ nba_http = QuietHttp /\ tf = IdleTf /\ InitSync /\ InitBackfill

Next == NextWorker

Spec == Init /\ [][Next]_vars

InitF == InitFetch /\ InitWorker /\ tf = IdleTf /\ InitSync /\ InitBackfill

SpecFetch == InitF /\ [][NextFetch]_vars

\* The caller takes the result; the next call starts from fresh inputs.
TransformReturn ==
    /\ tf.op # "idle"
    /\ tf' = IdleTf
    /\ UNCHANGED notTransform

InitT == InitWorker /\ sc = IdleCall /\ nba_http = QuietHttp /\ tf = IdleTf /\ InitSync /\ InitBackfill

NextTransform ==
    \/ DoTransformPlayerStat
    \/ DoTransformPlayerAdvancedStats
    \/ DoTransformGameData
    \/ DoDatePath
    \/ DoFetchGameScheduleInfo
    \/ TransformReturn

SpecTransform == InitT /\ [][NextTransform]_vars

InitS == InitWorker /\ sc = IdleCall /\ nba_http = QuietHttp /\ tf = IdleTf /\ InitSync /\ InitBackfill

SpecSync == InitS /\ [][NextSync]_vars

SpecSyncFaults == InitS /\ [][NextSyncFaults]_vars

InitB ==
    /\ InitWorker /\ sc = IdleCall /\ nba_http = QuietHttp /\ tf = IdleTf
    /\ db = [EmptyDb EXCEPT !.teams = TeamRows, !.players = {1, 2}]
    /\ so = IdleSo /\ nsync = 0
    /\ InitBackfill

SpecBackfill == InitB /\ [][NextBackfill]_vars

InitW == InitSolo /\ sc = IdleCall /\ nba_http = QuietHttp /\ tf = IdleTf /\ InitSync /\ InitBackfill

SpecSolo == InitW /\ [][NextSolo]_vars

====
